---------------------------- MODULE Notices_proofs ----------------------------
(***************************************************************************)
(* Proofs about Notices.  A notice names a version; since every change     *)
(* makes a version or erases an object, no notice comes twice, and what it *)
(* is gathered from is still there whenever a worker takes it.             *)
(***************************************************************************)
EXTENDS Notices, ObjectHistory_proofs

-----------------------------------------------------------------------------
(* What a change makes of the tables                                       *)

Announced == {"create", "update", "delete", "transfer", "renew"}

Does(d, e, c, id, now) ==
    /\ c.type \in Types
    /\ c.kind = "create" => Creates(d, e, c, now)
    /\ c.kind \in {"update", "transfer", "renew"} =>
          IsLive(d, c.type, id) /\ Writes(d, e, c.type, id, now)
    /\ c.kind = "delete" => IsLive(d, c.type, id) /\ Erases(d, e, id, now)

LEMMA CreateDoes ==
    ASSUME NEW d, NEW c, NEW now \in Nat, Sound(d), Call(c), Fits(d, c), c.kind = "create",
           NEW id
    PROVE  Does(d, Performed(d, c, now), c, id, now)
<1>1. CASE c.type = "contact"
  <2>1. Creates(d, CreateContact(d, c, now), c, now)
    BY <1>1, CreateContactCreates
  <2>2. Performed(d, c, now) = CreateContact(d, c, now)
    BY <1>1 DEF Performed
  <2>3. QED
    BY <1>1, <2>1, <2>2 DEF Does, Types
<1>2. CASE c.type = "nsset"
  <2>1. CreateNssetFits(d, c)
    BY <1>2 DEF Fits
  <2>2. Creates(d, CreateNsset(d, c, now), c, now)
    BY <1>2, <2>1, CreateNssetCreates DEF CreateNssetFits
  <2>3. Performed(d, c, now) = CreateNsset(d, c, now)
    BY <1>2 DEF Performed
  <2>4. QED
    BY <1>2, <2>2, <2>3 DEF Does, Types
<1>3. CASE c.type = "keyset"
  <2>1. CreateKeysetFits(d, c)
    BY <1>3 DEF Fits
  <2>2. Creates(d, CreateKeyset(d, c, now), c, now)
    BY <1>3, <2>1, CreateKeysetCreates DEF CreateKeysetFits
  <2>3. Performed(d, c, now) = CreateKeyset(d, c, now)
    BY <1>3 DEF Performed
  <2>4. QED
    BY <1>3, <2>2, <2>3 DEF Does, Types
<1>4. CASE c.type = "domain" /\ c.registrant \notin {None, Keep} /\ Keep \notin {c.nsset, c.keyset}
  <2>1. CreateDomainFits(d, c)
    BY <1>4 DEF Fits
  <2>2. Creates(d, CreateDomain(d, c, now), c, now)
    BY <1>4, <2>1, CreateDomainCreates DEF CreateDomainFits
  <2>3. Performed(d, c, now) = CreateDomain(d, c, now)
    BY <1>4 DEF Performed
  <2>4. QED
    BY <1>4, <2>2, <2>3 DEF Does, Types
<1>5. QED
  BY <1>1, <1>2, <1>3, <1>4, KindsOfCalls

LEMMA UpdateDoes ==
    ASSUME NEW d, NEW c, NEW now \in Nat, Sound(d), Call(c), Fits(d, c), c.kind = "update",
           NEW id, id = IdOf(d, c.type, c.name)
    PROVE  Does(d, Performed(d, c, now), c, id, now)
<1>1. CASE c.type = "contact"
  <2>1. UpdateContactFits(d, c)
    BY <1>1 DEF Fits
  <2>2. IsLive(d, "contact", id)
    BY <1>1, <2>1, NamedIsLive DEF UpdateContactFits
  <2>3. Writes(d, UpdateContact(d, c, now), "contact", id, now)
    BY <1>1, <2>2, UpdateContactWrites
  <2>4. Performed(d, c, now) = UpdateContact(d, c, now)
    BY <1>1 DEF Performed
  <2>5. QED
    BY <1>1, <2>2, <2>3, <2>4 DEF Does, Types
<1>2. CASE c.type = "nsset"
  <2>1. UpdateNssetFits(d, c)
    BY <1>2 DEF Fits
  <2>2. IsLive(d, "nsset", id) /\ AreContacts(d, c.add)
    BY <1>2, <2>1, NamedIsLive DEF UpdateNssetFits, LinksFit, AreContacts
  <2>3. Writes(d, UpdateNsset(d, c, now), "nsset", id, now)
    BY <1>2, <2>2, UpdateNssetWrites
  <2>4. Performed(d, c, now) = UpdateNsset(d, c, now)
    BY <1>2 DEF Performed
  <2>5. QED
    BY <1>2, <2>2, <2>3, <2>4 DEF Does, Types
<1>3. CASE c.type = "keyset"
  <2>1. UpdateKeysetFits(d, c)
    BY <1>3 DEF Fits
  <2>2. IsLive(d, "keyset", id) /\ AreContacts(d, c.add)
    BY <1>3, <2>1, NamedIsLive DEF UpdateKeysetFits, LinksFit, AreContacts
  <2>3. Writes(d, UpdateKeyset(d, c, now), "keyset", id, now)
    BY <1>3, <2>2, UpdateKeysetWrites
  <2>4. Performed(d, c, now) = UpdateKeyset(d, c, now)
    BY <1>3 DEF Performed
  <2>5. QED
    BY <1>3, <2>2, <2>3, <2>4 DEF Does, Types
<1>4. CASE c.type = "domain" /\ c.registrant # None
  <2>1. UpdateDomainFits(d, c)
    BY <1>4 DEF Fits
  <2>2. IsLive(d, "domain", id) /\ AreContacts(d, c.add) /\ TargetsFit(d, c)
    BY <1>4, <2>1, NamedIsLive DEF UpdateDomainFits, LinksFit, AreContacts
  <2>3. Writes(d, UpdateDomain(d, c, now), "domain", id, now)
    BY <1>4, <2>2, UpdateDomainWrites
  <2>4. Performed(d, c, now) = UpdateDomain(d, c, now)
    BY <1>4 DEF Performed
  <2>5. QED
    BY <1>4, <2>2, <2>3, <2>4 DEF Does, Types
<1>5. QED
  BY <1>1, <1>2, <1>3, <1>4, KindsOfCalls

LEMMA TransferDoes ==
    ASSUME NEW d, NEW c, NEW now \in Nat, Sound(d), Call(c), Fits(d, c), c.kind = "transfer",
           NEW id, id = IdOf(d, c.type, c.name)
    PROVE  /\ Does(d, Performed(d, c, now), c, id, now)
           /\ \A t \in Tables \ {"object"} : Performed(d, c, now).live[t] = d.live[t]
<1>1. c.type \in Types
  BY KindsOfCalls
<1>2. PICK type \in Types : type = c.type
  BY <1>1
<1>3. TransferFits(d, c)
  BY DEF Fits
<1>4. IsLive(d, c.type, id)
  BY <1>3, NamedIsLive DEF TransferFits
<1>5. PICK e : e = Copied(Transferred(d, c, now), id, TablesOf(type))
  OBVIOUS
<1>6. Writes(d, e, type, id, now) /\ \A t \in Tables \ {"object"} : e.live[t] = d.live[t]
  BY <1>2, <1>4, <1>5, TransferWrites
<1>7. Performed(d, c, now) = e
  <2>1. Performed(d, c, now) =
           CASE type = "contact" -> TransferContact(d, c, now)
             [] type = "nsset" -> TransferNsset(d, c, now)
             [] type = "keyset" -> TransferKeyset(d, c, now)
             [] type = "domain" -> TransferDomain(d, c, now)
    BY <1>2 DEF Performed, Types
  <2>2. QED
    BY <2>1, <1>2, <1>5, TablesOfTypes
       DEF Types, TransferContact, TransferNsset, TransferKeyset, TransferDomain,
           CopyContact, CopyNsset, CopyKeyset, CopyDomain
<1>8. QED
  BY <1>2, <1>4, <1>6, <1>7 DEF Does

LEMMA DeleteDoes ==
    ASSUME NEW d, NEW c, NEW now \in Nat, Sound(d), Call(c), Fits(d, c), c.kind = "delete",
           NEW id, id = IdOf(d, c.type, c.name)
    PROVE  Does(d, Performed(d, c, now), c, id, now)
<1>1. c.type \in Types
  BY KindsOfCalls
<1>2. PICK type \in Types : type = c.type
  BY <1>1
<1>3. IsLive(d, type, id)
  BY <1>2, NamedIsLive DEF Fits, DeleteFits
<1>4. Erases(d, Erased(d, id, now, TablesOf(type)), id, now)
  BY <1>3, ErasedErases
<1>5. Performed(d, c, now) = Erased(d, id, now, TablesOf(type))
  <2>1. Performed(d, c, now) = CASE type = "contact" -> DeleteContact(d, id, now)
                                 [] type = "nsset" -> DeleteNsset(d, id, now)
                                 [] type = "keyset" -> DeleteKeyset(d, id, now)
                                 [] type = "domain" -> DeleteDomain(d, id, now)
    BY <1>2 DEF Performed, Deleted
  <2>2. /\ DeleteContact(d, id, now) = Erased(d, id, now, TablesOf("contact"))
        /\ DeleteNsset(d, id, now) = Erased(d, id, now, TablesOf("nsset"))
        /\ DeleteKeyset(d, id, now) = Erased(d, id, now, TablesOf("keyset"))
        /\ DeleteDomain(d, id, now) = Erased(d, id, now, TablesOf("domain"))
    BY TablesOfTypes DEF DeleteContact, DeleteNsset, DeleteKeyset, DeleteDomain
  <2>3. QED
    BY <2>1, <2>2 DEF Types
<1>6. QED
  BY <1>2, <1>3, <1>4, <1>5 DEF Does

LEMMA PerformedDoes ==
    ASSUME NEW d, NEW c, NEW now \in Nat, Sound(d), Call(c), Fits(d, c), c.kind \in Announced,
           NEW id, id = IdOf(d, c.type, c.name)
    PROVE  Does(d, Performed(d, c, now), c, id, now)
<1>1. CASE c.kind = "renew"
  <2>1. c.type = "domain"
    BY <1>1, KindsOfCalls
  <2>2. IsLive(d, "domain", id)
    BY <1>1, <2>1, NamedIsLive DEF Fits, RenewDomainFits
  <2>3. Writes(d, RenewDomain(d, c, now), "domain", id, now)
    BY <2>1, <2>2, RenewDomainWrites
  <2>4. Performed(d, c, now) = RenewDomain(d, c, now)
    BY <1>1 DEF Performed
  <2>5. QED
    BY <1>1, <2>1, <2>2, <2>3, <2>4 DEF Does, Types
<1>2. QED
  BY <1>1, CreateDoes, UpdateDoes, TransferDoes, DeleteDoes DEF Announced

-----------------------------------------------------------------------------
(* A notice is of a version that there is; one of an erasure, of a version *)
(* of an erased object.                                                    *)
Told(d, n) ==
    /\ n.h \in DOMAIN d.history
    /\ n.event = "deleted" => \E i \in OwnersOf(d, n.h) : d.registry[i].erased # None

LEMMA OwnersShown ==
    ASSUME NEW d, NEW h
    PROVE  OwnersOf(d, h) = {r.id : r \in Shows(d, h, "object")}
  BY DEF OwnersOf, Shows

(* A version has one owner.                                                *)
LEMMA OneOwner ==
    ASSUME NEW d, Sound(d), NEW i, NEW h, h \in VersionsOf(d, i)
    PROVE  OwnersOf(d, h) = {i} /\ i \in DOMAIN d.registry /\ h \in DOMAIN d.history
<1>1. PICK e \in d.kept["object"] : e.h = h /\ e.row.id = i
  BY DEF VersionsOf
<1>2. \A f \in d.kept["object"] : f.h = h => f = e
  BY <1>1 DEF Sound, VersionsFit
<1>3. KeptRefers(d, "object", e.row) /\ e.h \in DOMAIN d.history
  BY <1>1, TablesOfTypes DEF Sound, VersionsFit, Tables
<1>4. QED
  BY <1>1, <1>2, <1>3 DEF OwnersOf, KeptRefers

LEMMA OwnersStay ==
    ASSUME NEW d, NEW e, Grows(d, e), NEW h \in DOMAIN d.history
    PROVE  OwnersOf(e, h) = OwnersOf(d, h)
<1>1. "object" \in Tables
  BY TablesOfTypes DEF Tables
<1>2. Shows(e, h, "object") = Shows(d, h, "object")
  BY <1>1 DEF Grows
<1>3. QED
  BY <1>2, OwnersShown

LEMMA OwnersAreRegistered ==
    ASSUME NEW d, Sound(d), NEW h, NEW i \in OwnersOf(d, h)
    PROVE  i \in DOMAIN d.registry /\ h \in VersionsOf(d, i)
<1>1. PICK e \in d.kept["object"] : e.h = h /\ e.row.id = i
  BY DEF OwnersOf
<1>2. h \in VersionsOf(d, i)
  BY <1>1 DEF VersionsOf
<1>3. QED
  BY <1>2, OneOwner

LEMMA ToldStays ==
    ASSUME NEW d, NEW e, Sound(d), Grows(d, e), NEW n, Told(d, n)
    PROVE  Told(e, n)
<1>1. n.h \in DOMAIN d.history /\ n.h \in DOMAIN e.history
  BY DEF Told, Grows
<1>2. OwnersOf(e, n.h) = OwnersOf(d, n.h)
  BY <1>1, OwnersStay
<1>3. \A i \in OwnersOf(d, n.h) : d.registry[i].erased # None => e.registry[i].erased # None
  BY OwnersAreRegistered DEF Grows
<1>4. QED
  BY <1>1, <1>2, <1>3 DEF Told

(* The object that a change is about                                       *)
Subject(d, c) == IF c.kind = "create" THEN Len(d.registry) + 1 ELSE IdOf(d, c.type, c.name)

(* A change makes a version; an erasure erases what was there until then.  *)
LEMMA NoticeIsNew ==
    ASSUME NEW d, NEW e, NEW c, NEW now \in Nat, Sound(d), c.kind \in Announced,
           NEW id, id = Subject(d, c), Does(d, e, c, id, now), Grows(d, e),
           NEW n, n = Notice(c.type, EventOf(c.kind), e.registry[id].historyid)
    PROVE  ~Told(d, n) /\ Told(e, n)
<1>1. n.h = e.registry[id].historyid /\ n.event = EventOf(c.kind)
  BY DEF Notice
<1>2. Len(d.history) + 1 \notin DOMAIN d.history
  BY ListFacts DEF Sound, Shape
<1>3. CASE c.kind = "create"
  <2>1. n.h = Len(d.history) + 1 /\ n.h \in DOMAIN e.history
    BY <1>1, <1>3 DEF Does, Creates, FirstHead, Subject
  <2>2. n.event # "deleted"
    BY <1>1, <1>3 DEF EventOf
  <2>3. QED
    BY <1>2, <2>1, <2>2 DEF Told
<1>4. CASE c.kind \in {"update", "transfer", "renew"}
  <2>1. NewHead(d, e, id, now) /\ id \in DOMAIN d.registry
    BY <1>4 DEF Does, Writes, IsLive
  <2>2. EntryFits(d, d.registry[id])
    BY <2>1 DEF Sound, Typed
  <2>3. n.h = Len(d.history) + 1 /\ n.h \in DOMAIN e.history
    BY <1>1, <2>1, <2>2 DEF NewHead, EntryFits
  <2>4. n.event # "deleted"
    BY <1>1, <1>4 DEF EventOf
  <2>5. QED
    BY <1>2, <2>3, <2>4 DEF Told
<1>5. CASE c.kind = "delete"
  <2>1. LastHead(d, e, id, now) /\ id \in DOMAIN d.registry /\ d.registry[id].erased = None
    BY <1>5 DEF Does, Erases, IsLive
  <2>2. EntryFits(d, d.registry[id])
    BY <2>1 DEF Sound, Typed
  <2>3. e.registry[id].historyid = d.registry[id].historyid /\ e.registry[id].erased = now
    BY <2>1, <2>2 DEF LastHead, EntryFits
  <2>4. n.h \in VersionsOf(d, id)
    BY <1>1, <2>1, <2>3 DEF Sound, Chains, ChainOf
  <2>5. OwnersOf(d, n.h) = {id} /\ n.h \in DOMAIN d.history
    BY <2>4, OneOwner
  <2>6. n.event = "deleted"
    BY <1>1, <1>5 DEF EventOf
  <2>7. ~Told(d, n)
    BY <2>1, <2>5, <2>6 DEF Told
  <2>8. OwnersOf(e, n.h) = {id} /\ n.h \in DOMAIN e.history
    BY <2>5, OwnersStay DEF Grows
  <2>9. Told(e, n)
    BY <2>3, <2>8, NullIsNoTime DEF Told
  <2>10. QED
    BY <2>7, <2>9
<1>6. QED
  BY <1>3, <1>4, <1>5 DEF Announced

(* A change of Notices is one of those.                                    *)
LEMMA ChangeDoes ==
    ASSUME IInv, NEW p \in Process, NEW c \in Calls, Perform(p, c)
    PROVE  /\ stamp[p] \in Nat /\ c.kind \in Announced /\ Sound(db) /\ Grows(db, db')
           /\ db' = Performed(db, c, stamp[p])
           /\ Does(db, db', c, Subject(db, c), stamp[p])
           /\ Call(c) /\ Fits(db, c)
<1>1. c.kind \in Announced
  BY CallsAnnounced DEF Announced
<1>2. Call(c)
  BY <1>1, CallsKnown DEF TwoContactsCall, Gives, Announced
<1>3. stamp[p] \in Nat /\ Sound(db) /\ MayPerform(db, c) /\ db' = Done(db, c, stamp[p])
  BY DEF Perform, IInv
<1>4. Fits(db, c) /\ db' = Performed(db, c, stamp[p])
  BY <1>1, <1>3 DEF MayPerform, Done, Announced
<1>5. Grows(db, db')
  BY <1>3, DoneFollows DEF Follows
<1>6. PICK now \in Nat : now = stamp[p]
  BY <1>3
<1>7. Does(db, db', c, Subject(db, c), now)
  <2>1. CASE c.kind = "create"
    <3>1. Does(db, Performed(db, c, now), c, Subject(db, c), now)
      BY <2>1, <1>2, <1>3, <1>4, CreateDoes
    <3>2. QED
      BY <3>1, <1>4, <1>6
  <2>2. CASE c.kind # "create"
    <3>1. Subject(db, c) = IdOf(db, c.type, c.name)
      BY <2>2 DEF Subject
    <3>2. Does(db, Performed(db, c, now), c, Subject(db, c), now)
      BY <3>1, <1>1, <1>2, <1>3, <1>4, PerformedDoes
    <3>3. QED
      BY <3>2, <1>4, <1>6
  <2>3. QED
    BY <2>1, <2>2
<1>8. QED
  BY <1>1, <1>2, <1>3, <1>4, <1>5, <1>6, <1>7

-----------------------------------------------------------------------------
(* Bags                                                                    *)

Counts(B) == \A m \in DOMAIN B : B[m] \in Nat

LEMMA CopiesCount ==
    ASSUME NEW B, Counts(B), NEW m
    PROVE  Copies(m, B) \in Nat /\ Copies(m, B) = IF m \in DOMAIN B THEN B[m] ELSE 0
  BY DEF Counts, Copies, BagIn, BagToSet

AddedTo(B, x, C) ==
    /\ Counts(C) /\ DOMAIN C = DOMAIN B \cup {x}
    /\ \A m : Copies(m, C) = IF m = x THEN Copies(m, B) + 1 ELSE Copies(m, B)

LEMMA OneMore ==
    ASSUME NEW B, Counts(B), NEW x
    PROVE  AddedTo(B, x, B (+) SetToBag({x}))
<1>1. PICK D : D = SetToBag({x})
  OBVIOUS
<1>2. DOMAIN D = {x} /\ D[x] = 1
  BY <1>1 DEF SetToBag
<1>3. PICK C : C = B (+) D
  OBVIOUS
<1>4. DOMAIN C = DOMAIN B \cup {x}
  BY <1>2, <1>3 DEF (+)
<1>5. \A m \in DOMAIN C : C[m] = (IF m \in DOMAIN B THEN B[m] ELSE 0) + (IF m = x THEN 1 ELSE 0)
  BY <1>2, <1>3 DEF (+)
<1>6. Counts(C)
  BY <1>4, <1>5 DEF Counts
<1>7. ASSUME NEW m
      PROVE  Copies(m, C) = IF m = x THEN Copies(m, B) + 1 ELSE Copies(m, B)
  <2>1. Copies(m, B) \in Nat /\ Copies(m, B) = IF m \in DOMAIN B THEN B[m] ELSE 0
    BY CopiesCount
  <2>2. Copies(m, C) = IF m \in DOMAIN C THEN C[m] ELSE 0
    BY <1>6, CopiesCount
  <2>3. CASE m \in DOMAIN C
    <3>1. C[m] = (IF m \in DOMAIN B THEN B[m] ELSE 0) + (IF m = x THEN 1 ELSE 0)
      BY <2>3, <1>5
    <3>2. QED
      BY <2>1, <2>2, <2>3, <3>1
  <2>4. CASE m \notin DOMAIN C
    BY <2>1, <2>2, <2>4, <1>4
  <2>5. QED
    BY <2>3, <2>4
<1>8. QED
  BY <1>1, <1>3, <1>4, <1>6, <1>7 DEF AddedTo

-----------------------------------------------------------------------------
(* The workers                                                             *)

Busy(w) == worker[w].stage # "idle"

Queued(n) == \E row \in queue : row.notice = n

WorkersTyped ==
    /\ worker = [w \in Worker |-> worker[w]]
    /\ \A w \in Worker :
          /\ DOMAIN worker[w] = {"notice", "stage", "left", "content"}
          /\ worker[w].stage \in {"idle", "taken", "sending"}
          /\ worker[w].left # {} => worker[w].stage = "sending"

(* What is locked is in the queue until its worker commits, and nobody     *)
(* else can lock it.                                                       *)
RowsLocked ==
    \A w \in Worker : Busy(w) =>
        /\ Queued(worker[w].notice)
        /\ \A v \in Worker : Busy(v) /\ worker[v].notice = worker[w].notice => v = w

(* Who has still to be sent a notice, now or by another attempt            *)
Pending(n, a) ==
    /\ Queued(n)
    /\ \A w \in Worker : worker[w].stage = "sending" /\ worker[w].notice = n => a \in worker[w].left

(* Each time that a pending notice was sent to somebody, an attempt failed *)
(* after that.                                                             *)
SendingsCounted ==
    \A m \in DOMAIN sent :
        /\ Copies(m, sent) <= 1 + Copies(m[1], failures)
        /\ Pending(m[1], m[2]) => Copies(m, sent) <= Copies(m[1], failures)

AllTold ==
    /\ \A row \in queue : Told(db, row.notice)
    /\ \A m \in DOMAIN sent : m = <<m[1], m[2]>> /\ Told(db, m[1])
    /\ \A m \in messages : Told(db, m.notice)

MailInv ==
    /\ Counts(sent) /\ Counts(failures)
    /\ WorkersTyped /\ RowsLocked /\ SendingsCounted /\ AllTold

NInv == IInv /\ MailInv

LEMMA InitMail == NoticesInit => NInv
<1> SUFFICES ASSUME NoticesInit PROVE NInv
  OBVIOUS
<1>1. IInv
  BY InitSound DEF NoticesInit
<1>2. DOMAIN sent = {} /\ DOMAIN failures = {}
  BY DEF NoticesInit, EmptyBag, SetToBag
<1>3. worker = [w \in Worker |-> Idle] /\ queue = {} /\ messages = {}
  BY DEF NoticesInit
<1>4. WorkersTyped
  BY <1>3 DEF WorkersTyped, Idle
<1>5. RowsLocked
  BY <1>3 DEF RowsLocked, Busy, Idle
<1>6. QED
  BY <1>1, <1>2, <1>3, <1>4, <1>5 DEF NInv, MailInv, Counts, SendingsCounted, AllTold

(* A worker's row of the queue stays as long as others work.               *)
LEMMA TakeMail ==
    ASSUME NInv, NEW w \in Worker, TakeRequest(w)
    PROVE  MailInv'
<1>1. PICK row \in queue :
         /\ \A v \in Worker : worker[v].notice # row.notice
         /\ worker' = [worker EXCEPT ![w] = [Idle EXCEPT !.notice = row.notice, !.stage = "taken"]]
  BY DEF TakeRequest
<1>2. UNCHANGED <<db, queue, sent, failures, messages>>
  BY DEF TakeRequest, vars
<1>3. PICK x : x = [Idle EXCEPT !.notice = row.notice, !.stage = "taken"]
  OBVIOUS
<1>4. /\ DOMAIN x = {"notice", "stage", "left", "content"}
      /\ x.notice = row.notice /\ x.stage = "taken" /\ x.left = {}
  BY <1>3 DEF Idle
<1>5. WorkersTyped /\ RowsLocked /\ SendingsCounted /\ AllTold /\ Counts(sent) /\ Counts(failures)
  BY DEF NInv, MailInv
<1>6. worker' = [v \in Worker |-> IF v = w THEN x ELSE worker[v]]
  BY <1>1, <1>3, <1>5 DEF WorkersTyped
<1>7. worker'[w] = x /\ \A v \in Worker \ {w} : worker'[v] = worker[v]
  BY <1>6
<1>8. WorkersTyped'
  BY <1>4, <1>5, <1>6, <1>7 DEF WorkersTyped
<1>9. RowsLocked'
  BY <1>1, <1>2, <1>4, <1>5, <1>7 DEF RowsLocked, Busy, Queued
<1>10. \A n, a : Pending(n, a)' => Pending(n, a)
  BY <1>1, <1>2, <1>4, <1>5, <1>7 DEF Pending, Queued, TakeRequest
<1>11. SendingsCounted'
  BY <1>2, <1>5, <1>10 DEF SendingsCounted
<1>12. QED
  BY <1>2, <1>5, <1>8, <1>9, <1>11 DEF MailInv, AllTold

LEMMA GatherMail ==
    ASSUME NInv, NEW w \in Worker, Gather(w)
    PROVE  MailInv'
<1>1. PICK left, content :
         worker' = [worker EXCEPT ![w].stage = "sending", ![w].content = content, ![w].left = left]
  BY DEF Gather
<1>2. UNCHANGED <<db, queue, sent, failures, messages>> /\ worker[w].stage = "taken"
  BY DEF Gather, vars
<1>3. PICK x : x = [worker[w] EXCEPT !.stage = "sending", !.content = content, !.left = left]
  OBVIOUS
<1>4. WorkersTyped /\ RowsLocked /\ SendingsCounted /\ AllTold /\ Counts(sent) /\ Counts(failures)
  BY DEF NInv, MailInv
<1>5. DOMAIN worker[w] = {"notice", "stage", "left", "content"}
  BY <1>4 DEF WorkersTyped
<1>6. /\ DOMAIN x = {"notice", "stage", "left", "content"}
      /\ x.notice = worker[w].notice /\ x.stage = "sending" /\ x.left = left
  BY <1>3, <1>5
<1>7. worker' = [v \in Worker |-> IF v = w THEN x ELSE worker[v]]
  BY <1>1, <1>3, <1>4 DEF WorkersTyped
<1>8. worker'[w] = x /\ \A v \in Worker \ {w} : worker'[v] = worker[v]
  BY <1>7
<1>9. WorkersTyped'
  BY <1>4, <1>6, <1>7, <1>8 DEF WorkersTyped
<1>10. RowsLocked'
  BY <1>2, <1>4, <1>6, <1>8 DEF RowsLocked, Busy, Queued
<1>11. \A n, a : Pending(n, a)' => Pending(n, a)
  BY <1>2, <1>6, <1>8 DEF Pending, Queued
<1>12. SendingsCounted'
  BY <1>2, <1>4, <1>11 DEF SendingsCounted
<1>13. QED
  BY <1>2, <1>4, <1>9, <1>10, <1>12 DEF MailInv, AllTold

(* What is sent was pending and is not any more.                           *)
LEMMA SendMail ==
    ASSUME NInv, NEW w \in Worker, Send(w)
    PROVE  MailInv'
<1>1. PICK a \in worker[w].left :
         /\ sent' = sent (+) SetToBag({<<worker[w].notice, a>>})
         /\ worker' = [worker EXCEPT ![w].left = worker[w].left \ {a}]
  BY DEF Send
<1>2. UNCHANGED <<db, queue, failures, messages>>
  BY DEF Send, vars
<1>3. WorkersTyped /\ RowsLocked /\ SendingsCounted /\ AllTold /\ Counts(sent) /\ Counts(failures)
  BY DEF NInv, MailInv
<1>4. PICK n : n = worker[w].notice
  OBVIOUS
<1>5. PICK x : x = [worker[w] EXCEPT !.left = worker[w].left \ {a}]
  OBVIOUS
<1>6. DOMAIN worker[w] = {"notice", "stage", "left", "content"} /\ worker[w].stage = "sending"
  BY <1>1, <1>3 DEF WorkersTyped
<1>7. /\ DOMAIN x = {"notice", "stage", "left", "content"}
      /\ x.notice = n /\ x.stage = "sending" /\ x.left = worker[w].left \ {a}
  BY <1>4, <1>5, <1>6
<1>8. worker' = [v \in Worker |-> IF v = w THEN x ELSE worker[v]]
  BY <1>1, <1>3, <1>5 DEF WorkersTyped
<1>9. worker'[w] = x /\ \A v \in Worker \ {w} : worker'[v] = worker[v]
  BY <1>8
<1>10. WorkersTyped'
  BY <1>3, <1>7, <1>8, <1>9 DEF WorkersTyped
<1>11. RowsLocked'
  BY <1>2, <1>3, <1>4, <1>6, <1>7, <1>9 DEF RowsLocked, Busy, Queued
<1>12. /\ Queued(n) /\ \A v \in Worker : Busy(v) /\ worker[v].notice = n => v = w
  BY <1>3, <1>4, <1>6 DEF RowsLocked, Busy
<1>13. Pending(n, a)
  BY <1>12, <1>1 DEF Pending, Busy
<1>14. \A k, b : Pending(k, b)' => Pending(k, b)
  BY <1>2, <1>4, <1>7, <1>9 DEF Pending, Queued
<1>15. ~Pending(n, a)'
  BY <1>7, <1>9 DEF Pending
<1>16. PICK m : m = <<n, a>>
  OBVIOUS
<1>17. /\ Counts(sent') /\ DOMAIN sent' = DOMAIN sent \cup {m}
       /\ \A k : Copies(k, sent') = IF k = m THEN Copies(k, sent) + 1 ELSE Copies(k, sent)
  <2>1. AddedTo(sent, m, sent (+) SetToBag({m}))
    BY <1>3, OneMore
  <2>2. AddedTo(sent, m, sent')
    BY <2>1, <1>1, <1>4, <1>16
  <2>3. QED
    BY <2>2 DEF AddedTo
<1>18. SendingsCounted'
  <2> SUFFICES ASSUME NEW k \in DOMAIN sent'
               PROVE  /\ Copies(k, sent') <= 1 + Copies(k[1], failures)
                      /\ Pending(k[1], k[2])' => Copies(k, sent') <= Copies(k[1], failures)
    BY <1>2 DEF SendingsCounted
  <2>1. Copies(k, sent) \in Nat /\ Copies(k[1], failures) \in Nat
    BY <1>3, CopiesCount
  <2>2. CASE k = m
    <3>1. k[1] = n /\ k[2] = a
      BY <2>2, <1>16
    <3>2. k \in DOMAIN sent => Copies(k, sent) <= Copies(n, failures)
      BY <3>1, <1>3, <1>13 DEF SendingsCounted
    <3>3. k \notin DOMAIN sent => Copies(k, sent) = 0
      BY <1>3, CopiesCount
    <3>4. Copies(k, sent') = Copies(k, sent) + 1
      BY <2>2, <1>17
    <3>5. QED
      BY <2>1, <3>1, <3>2, <3>3, <3>4, <1>15
  <2>3. CASE k # m
    <3>1. k \in DOMAIN sent /\ Copies(k, sent') = Copies(k, sent)
      BY <2>3, <1>17
    <3>2. QED
      BY <3>1, <1>3, <1>14 DEF SendingsCounted
  <2>4. QED
    BY <2>2, <2>3
<1>19. Told(db, n)
  BY <1>3, <1>12 DEF AllTold, Queued
<1>20. AllTold'
  BY <1>2, <1>3, <1>16, <1>17, <1>19 DEF AllTold
<1>21. QED
  BY <1>2, <1>3, <1>10, <1>11, <1>17, <1>18, <1>20 DEF MailInv

(* All rows of a notice leave the queue at once.                           *)
LEMMA FinishMail ==
    ASSUME NInv, NEW w \in Worker, Finish(w)
    PROVE  MailInv'
<1>1. /\ worker' = [worker EXCEPT ![w] = Idle] /\ worker[w].stage = "sending"
      /\ queue' = {row \in queue : row.notice # worker[w].notice}
  BY DEF Finish, Taken
<1>2. UNCHANGED <<db, sent, failures, messages>>
  BY DEF Finish, vars
<1>3. WorkersTyped /\ RowsLocked /\ SendingsCounted /\ AllTold /\ Counts(sent) /\ Counts(failures)
  BY DEF NInv, MailInv
<1>4. worker' = [v \in Worker |-> IF v = w THEN Idle ELSE worker[v]]
  BY <1>1, <1>3 DEF WorkersTyped
<1>5. worker'[w] = Idle /\ \A v \in Worker \ {w} : worker'[v] = worker[v]
  BY <1>4
<1>6. WorkersTyped'
  BY <1>3, <1>4, <1>5 DEF WorkersTyped, Idle
<1>7. \A v \in Worker \ {w} : Busy(v) => worker[v].notice # worker[w].notice
  BY <1>1, <1>3 DEF RowsLocked, Busy
<1>8. RowsLocked'
  BY <1>1, <1>3, <1>5, <1>7 DEF RowsLocked, Busy, Queued, Idle
<1>9. \A n, a : Pending(n, a)' => Pending(n, a)
  BY <1>1, <1>5 DEF Pending, Queued
<1>10. SendingsCounted'
  BY <1>2, <1>3, <1>9 DEF SendingsCounted
<1>11. QED
  BY <1>1, <1>2, <1>3, <1>6, <1>8, <1>10 DEF MailInv, AllTold

(* What was sent may be sent again, and has been sent once more than that. *)
LEMMA FailMail ==
    ASSUME NInv, NEW w \in Worker, Fail(w)
    PROVE  MailInv'
<1>1. /\ worker' = [worker EXCEPT ![w] = Idle]
      /\ failures' = failures (+) SetToBag({worker[w].notice})
  BY DEF Fail
<1>2. UNCHANGED <<db, queue, sent, messages>>
  BY DEF Fail, vars
<1>3. WorkersTyped /\ RowsLocked /\ SendingsCounted /\ AllTold /\ Counts(sent) /\ Counts(failures)
  BY DEF NInv, MailInv
<1>4. worker' = [v \in Worker |-> IF v = w THEN Idle ELSE worker[v]]
  BY <1>1, <1>3 DEF WorkersTyped
<1>5. worker'[w] = Idle /\ \A v \in Worker \ {w} : worker'[v] = worker[v]
  BY <1>4
<1>6. WorkersTyped'
  BY <1>3, <1>4, <1>5 DEF WorkersTyped, Idle
<1>7. RowsLocked'
  BY <1>2, <1>3, <1>5 DEF RowsLocked, Busy, Queued, Idle
<1>8. PICK n : n = worker[w].notice
  OBVIOUS
<1>9. \A k, b : k # n /\ Pending(k, b)' => Pending(k, b)
  BY <1>2, <1>5, <1>8 DEF Pending, Queued
<1>10. /\ Counts(failures')
       /\ \A k : Copies(k, failures') = IF k = n THEN Copies(k, failures) + 1
                                                   ELSE Copies(k, failures)
  <2>1. AddedTo(failures, n, failures (+) SetToBag({n}))
    BY <1>3, OneMore
  <2>2. AddedTo(failures, n, failures')
    BY <2>1, <1>1, <1>8
  <2>3. QED
    BY <2>2 DEF AddedTo
<1>11. SendingsCounted'
  <2> SUFFICES ASSUME NEW m \in DOMAIN sent
               PROVE  /\ Copies(m, sent) <= 1 + Copies(m[1], failures')
                      /\ Pending(m[1], m[2])' => Copies(m, sent) <= Copies(m[1], failures')
    BY <1>2 DEF SendingsCounted
  <2>1. Copies(m, sent) \in Nat /\ Copies(m[1], failures) \in Nat
    BY <1>3, CopiesCount
  <2>2. /\ Copies(m, sent) <= 1 + Copies(m[1], failures)
        /\ Pending(m[1], m[2]) => Copies(m, sent) <= Copies(m[1], failures)
    BY <1>3 DEF SendingsCounted
  <2>3. QED
    BY <2>1, <2>2, <1>9, <1>10
<1>12. QED
  BY <1>2, <1>3, <1>6, <1>7, <1>10, <1>11 DEF MailInv, AllTold

(* The notice of a change is new, so nobody has been sent it.              *)
LEMMA ChangeMail ==
    ASSUME NInv, NEW p \in Process, NEW c \in Calls, NEW copies \in 1..2, Change(p, c, copies)
    PROVE  MailInv'
<1>1. Perform(p, c) /\ UNCHANGED <<worker, sent, failures>>
  BY DEF Change
<1>2. WorkersTyped /\ RowsLocked /\ SendingsCounted /\ AllTold /\ Counts(sent) /\ Counts(failures)
  BY DEF NInv, MailInv
<1>3. PICK id : id = Subject(db, c)
  OBVIOUS
<1>4. PICK n : n = Notice(c.type, EventOf(c.kind), db'.registry[id].historyid)
  OBVIOUS
<1>5. /\ queue' = queue \cup {[notice |-> n, copy |-> i] : i \in 1..copies}
      /\ messages' = messages \cup {[notice |-> n, clid |-> r] : r \in Recipients(db', n)}
  BY <1>3, <1>4 DEF Change, Subject
<1>6. /\ stamp[p] \in Nat /\ c.kind \in Announced /\ Sound(db) /\ Grows(db, db')
      /\ Does(db, db', c, id, stamp[p])
  BY <1>1, <1>3, ChangeDoes DEF NInv
<1>7. ~Told(db, n) /\ Told(db', n)
  BY <1>3, <1>4, <1>6, NoticeIsNew
<1>8. \A k : Told(db, k) => Told(db', k)
  BY <1>6, ToldStays
<1>9. AllTold'
  BY <1>1, <1>2, <1>5, <1>7, <1>8 DEF AllTold
<1>10. WorkersTyped'
  BY <1>1, <1>2 DEF WorkersTyped
<1>11. RowsLocked'
  BY <1>1, <1>2, <1>5 DEF RowsLocked, Busy, Queued
<1>12. \A k, b : k # n /\ Pending(k, b)' => Pending(k, b)
  BY <1>1, <1>5 DEF Pending, Queued
<1>13. \A m \in DOMAIN sent : m[1] # n
  BY <1>2, <1>7 DEF AllTold
<1>14. SendingsCounted'
  BY <1>1, <1>2, <1>12, <1>13 DEF SendingsCounted
<1>15. QED
  BY <1>1, <1>2, <1>9, <1>10, <1>11, <1>14 DEF MailInv

LEMMA NoticesKeep == NInv /\ [NoticesNext]_allVars => NInv'
<1> SUFFICES ASSUME NInv, [NoticesNext]_allVars PROVE NInv'
  OBVIOUS
<1>1. [Next]_vars
  BY DEF NoticesNext, allVars, vars, told, Next, Change, TakeRequest, Gather, Send, Finish, Fail
<1>2. IInv'
  BY <1>1, NextFollows DEF NInv
<1>3. CASE UNCHANGED allVars
  <2>1. UNCHANGED <<db, queue, worker, sent, failures, messages>>
    BY <1>3 DEF allVars, vars, told
  <2>2. QED
    BY <2>1, <1>2
       DEF NInv, MailInv, WorkersTyped, RowsLocked, SendingsCounted, AllTold, Pending, Queued, Busy
<1>4. CASE \E p \in Process : (Begin(p) \/ Rollback(p)) /\ UNCHANGED told
  <2>1. UNCHANGED <<db, queue, worker, sent, failures, messages>>
    BY <1>4 DEF Begin, Rollback, told
  <2>2. QED
    BY <2>1, <1>2
       DEF NInv, MailInv, WorkersTyped, RowsLocked, SendingsCounted, AllTold, Pending, Queued, Busy
<1>5. CASE \E p \in Process, c \in Calls, copies \in 1..2 : Change(p, c, copies)
  <2>1. MailInv'
    BY <1>5, ChangeMail
  <2>2. QED
    BY <1>2, <2>1 DEF NInv
<1>6. CASE \E w \in Worker : TakeRequest(w) \/ Gather(w) \/ Send(w) \/ Finish(w) \/ Fail(w)
  <2>1. MailInv'
    BY <1>6, TakeMail, GatherMail, SendMail, FinishMail, FailMail
  <2>2. QED
    BY <1>2, <2>1 DEF NInv
<1>7. NoticesNext \/ UNCHANGED allVars
  OBVIOUS
<1>8. CASE NoticesNext
  BY <1>4, <1>5, <1>6, <1>8, Zenon DEF NoticesNext
<1>9. QED
  BY <1>3, <1>7, <1>8

(* However many workers take notices from the queue, and however often one *)
(* was enqueued: each mail of a notice that nobody has failed to send is   *)
(* sent to an address at most once.                                        *)
THEOREM NoneMailedTwice == NoticesSpec => []MailedTwiceAfterFailure
<1>1. NInv => MailedTwiceAfterFailure
  BY DEF NInv, MailInv, SendingsCounted, MailedTwiceAfterFailure
<1>2. QED
  BY <1>1, InitMail, NoticesKeep, PTL DEF NoticesSpec

-----------------------------------------------------------------------------
(* The version at a time                                                   *)

(* At any time from its registration to its erasure, both included, an     *)
(* object has a version, in whatever order its versions were stamped.      *)
LEMMA VersionAtTime ==
    ASSUME NEW d, Sound(d), NEW i \in DOMAIN d.registry, NEW t \in Nat,
           d.registry[i].created <= t,
           d.registry[i].erased # None => t <= d.registry[i].erased
    PROVE  Bordering(d, i, t) # {}
<1>1. ChainOf(d, i) /\ EntryFits(d, d.registry[i])
  BY DEF Sound, Chains, Typed
<1>2. PICK r : r = d.registry[i]
  OBVIOUS
<1>3. /\ r.crhistoryid \in VersionsOf(d, i) /\ r.historyid \in VersionsOf(d, i)
      /\ d.history[r.crhistoryid].from = r.created
  BY <1>1, <1>2 DEF ChainOf
<1>4. \A h \in VersionsOf(d, i) :
         /\ h \in DOMAIN d.history /\ h \in Nat /\ VersionFits(d, d.history[h])
  <2>1. DOMAIN d.history \subseteq Nat
    BY ListFacts DEF Sound, Shape
  <2>2. \A h \in VersionsOf(d, i) : h \in DOMAIN d.history
    BY OneOwner
  <2> QED BY <2>1, <2>2 DEF Sound, Typed
<1>5. PICK top \in Nat : top = r.historyid
  BY <1>3, <1>4
<1>6. PICK B \in SUBSET VersionsOf(d, i) : B = {h \in VersionsOf(d, i) : d.history[h].from <= t}
  OBVIOUS
<1>7. r.crhistoryid \in B
  BY <1>2, <1>3, <1>6
<1>8. \A h \in VersionsOf(d, i) : h <= top
  BY <1>1, <1>2, <1>5 DEF ChainOf
<1>9. PICK N : N = {top - h : h \in B}
  OBVIOUS
<1>10. N \subseteq Nat /\ N # {}
  BY <1>4, <1>6, <1>7, <1>8, <1>9
<1>11. PICK k \in N : \A j \in N : k <= j
  BY <1>10, SmallestNumber
<1>12. PICK h \in B : k = top - h
  BY <1>9, <1>11
<1>13. \A g \in B : ~(g > h)
  <2> SUFFICES ASSUME NEW g \in B, g > h PROVE FALSE
    OBVIOUS
  <2>1. top - h <= top - g
    BY <1>9, <1>11, <1>12
  <2>2. g \in Nat /\ h \in Nat
    BY <1>4, <1>6
  <2>3. QED
    BY <2>1, <2>2
<1>14. h \in VersionsOf(d, i) /\ d.history[h].from <= t
  BY <1>6
<1>15. d.history[h].to # None => t <= d.history[h].to
  <2>1. CASE h = r.historyid
    BY <2>1, <1>1, <1>2, <1>14 DEF ChainOf
  <2>2. CASE h # r.historyid
    <3>1. PICK g \in VersionsOf(d, i) : g > h /\ d.history[h].to = d.history[g].from
      BY <2>2, <1>1, <1>2, <1>14 DEF ChainOf
    <3>2. g \notin B
      BY <3>1, <1>13
    <3>3. ~(d.history[g].from <= t) /\ d.history[g].from \in Nat
      BY <3>1, <3>2, <1>4, <1>6 DEF VersionFits
    <3>4. QED
      BY <3>1, <3>3
  <2>3. QED
    BY <2>1, <2>2
<1>16. QED
  BY <1>14, <1>15 DEF Bordering

LEMMA TimeOfTold ==
    ASSUME NEW d, Sound(d), NEW n, Told(d, n)
    PROVE  TimeOfEvent(d, n) \in Nat
<1>1. VersionFits(d, d.history[n.h])
  BY DEF Told, Sound, Typed
<1>2. CASE n.event # "deleted"
  BY <1>1, <1>2 DEF TimeOfEvent, VersionFits
<1>3. CASE n.event = "deleted"
  <2>1. PICK i \in OwnersOf(d, n.h) : d.registry[i].erased # None
    BY <1>3 DEF Told
  <2>2. i \in DOMAIN d.registry /\ n.h \in VersionsOf(d, i)
    BY <2>1, OwnersAreRegistered
  <2>3. ChainOf(d, i)
    BY <2>2 DEF Sound, Chains
  <2>4. d.history[n.h].to # None
    <3>1. CASE n.h = d.registry[i].historyid
      BY <3>1, <2>1, <2>2, <2>3 DEF ChainOf
    <3>2. CASE n.h # d.registry[i].historyid
      <4>1. PICK g \in VersionsOf(d, i) : d.history[n.h].to = d.history[g].from
        BY <3>2, <2>2, <2>3 DEF ChainOf
      <4>2. VersionFits(d, d.history[g])
        BY <4>1, OneOwner DEF Sound, Typed
      <4>3. QED
        BY <4>1, <4>2, NullIsNoTime DEF VersionFits
    <3>3. QED
      BY <3>1, <3>2
  <2>5. QED
    BY <1>1, <1>3, <2>4 DEF TimeOfEvent, VersionFits
<1>4. QED
  BY <1>2, <1>3

(* What has been exchanged was registered.                                 *)
LEMMA ExchangedRegistered ==
    ASSUME NEW d, Sound(d), NEW n, NEW field \in {"nsset", "keyset"}, NEW i \in Exchanged(d, n, field)
    PROVE  i \in DOMAIN d.registry
<1>1. i # None /\ \E h \in Shown(d, n) : \E r \in Version(d, h)["domain"] : r[field] = i
  BY DEF Exchanged
<1>2. PICK h \in Shown(d, n) : \E r \in Version(d, h)["domain"] : r[field] = i
  BY <1>1
<1>3. PICK r \in Version(d, h)["domain"] : r[field] = i
  BY <1>2
<1>4. "domain" \in Tables
  BY TablesOfTypes DEF Types
<1>5. PICK e \in d.kept["domain"] : e.row = r
  BY <1>3, <1>4 DEF Version
<1>6. KeptRefers(d, "domain", r)
  BY <1>4, <1>5 DEF Sound, VersionsFit
<1>7. r.nsset \in DOMAIN d.registry \cup {None} /\ r.keyset \in DOMAIN d.registry \cup {None}
  BY <1>6 DEF KeptRefers
<1>8. QED
  BY <1>1, <1>3, <1>7

(* A notice of the queue that cannot be gathered is of a change that began *)
(* before the registration of what it refers to, or after its erasure.     *)
THEOREM UnsentOutOfTurn == NoticesSpec => []UnsentWasOutOfTurn
<1>1. NInv => UnsentWasOutOfTurn
  <2> SUFFICES ASSUME NInv, NEW row \in queue, ~CanBeGathered(db, row.notice)
               PROVE  LET n == row.notice IN
                      \E i \in Exchanged(db, n, "nsset") \cup Exchanged(db, n, "keyset") :
                         LET t == TimeOfEvent(db, n)
                             r == db.registry[i]
                         IN t < r.created \/ (r.erased # None /\ r.erased < t)
    BY DEF UnsentWasOutOfTurn
  <2>1. PICK n : n = row.notice
    OBVIOUS
  <2>2. PICK t : t = TimeOfEvent(db, n)
    OBVIOUS
  <2>3. Sound(db) /\ Told(db, n) /\ t \in Nat
    BY <2>1, <2>2, TimeOfTold DEF NInv, IInv, MailInv, AllTold
  <2>4. PICK i \in Exchanged(db, n, "nsset") \cup Exchanged(db, n, "keyset") : Bordering(db, i, t) = {}
    BY <2>1, <2>2 DEF CanBeGathered
  <2>5. i \in DOMAIN db.registry
    BY <2>3, <2>4, ExchangedRegistered
  <2>6. EntryFits(db, db.registry[i])
    BY <2>3, <2>5 DEF Sound, Typed
  <2>7. ~(/\ db.registry[i].created <= t
          /\ db.registry[i].erased # None => t <= db.registry[i].erased)
    BY <2>3, <2>4, <2>5, VersionAtTime
  <2>8. t < db.registry[i].created
        \/ (db.registry[i].erased # None /\ db.registry[i].erased < t)
    BY <2>3, <2>6, <2>7 DEF EntryFits
  <2>9. QED
    BY <2>1, <2>2, <2>4, <2>8
<1>2. QED
  BY <1>1, InitMail, NoticesKeep, PTL DEF NoticesSpec


-----------------------------------------------------------------------------
(* Versions of one object                                                  *)

(* Every version has an owner, and its rows are of that object.            *)
Whole(d) ==
    /\ \A h \in DOMAIN d.history : OwnersOf(d, h) # {}
    /\ \A t \in Tables : \A e \in d.kept[t] : e.row.id \in OwnersOf(d, e.h)

LEMMA NewVersionWhole ==
    ASSUME NEW d, NEW e, NEW id, Sound(d), Whole(d), Grows(d, e), KeepsRows(d, e, id),
           DOMAIN e.history = DOMAIN d.history \cup {Len(d.history) + 1},
           OneRow(e, "object", id)
    PROVE  Whole(e)
<1>1. PICK h : h = Len(d.history) + 1
  OBVIOUS
<1>2. PICK r : Rows(e, "object", id) = {r}
  BY DEF OneRow
<1>3. r.id = id
  BY <1>2 DEF Rows
<1>4. Shows(e, h, "object") = {r}
  BY <1>1, <1>2, KeepsShown, TablesOfTypes DEF Sound
<1>5. OwnersOf(e, h) = {id}
  BY <1>3, <1>4, OwnersShown
<1>6. \A k \in DOMAIN d.history : OwnersOf(e, k) = OwnersOf(d, k)
  BY OwnersStay
<1>7. ASSUME NEW t \in Tables, NEW x \in e.kept[t]
      PROVE  x.row.id \in OwnersOf(e, x.h)
  <2>1. e.kept[t] = d.kept[t] \cup {[h |-> h, row |-> q] : q \in Rows(e, t, id)}
    BY <1>1 DEF KeepsRows
  <2>2. CASE x \in d.kept[t]
    <3>1. x.h \in DOMAIN d.history /\ x.row.id \in OwnersOf(d, x.h)
      BY <2>2 DEF Sound, VersionsFit, Whole
    <3>2. QED
      BY <3>1, <1>6
  <2>3. CASE x \notin d.kept[t]
    <3>1. PICK q \in Rows(e, t, id) : x = [h |-> h, row |-> q]
      BY <2>1, <2>3
    <3>2. x.h = h /\ x.row.id = id
      BY <3>1 DEF Rows
    <3>3. QED
      BY <3>2, <1>5
  <2>4. QED
    BY <2>2, <2>3
<1>8. QED
  BY <1>1, <1>5, <1>6, <1>7 DEF Whole

LEMMA SameKeptWhole ==
    ASSUME NEW d, NEW e, Whole(d), e.kept = d.kept, DOMAIN e.history = DOMAIN d.history
    PROVE  Whole(e)
<1>1. \A h : OwnersOf(e, h) = OwnersOf(d, h)
  BY DEF OwnersOf
<1>2. QED
  BY <1>1 DEF Whole

LEMMA DoesWhole ==
    ASSUME NEW d, NEW e, NEW c, NEW id, NEW now, Sound(d), Whole(d), Grows(d, e),
           c.kind \in Announced, Does(d, e, c, id, now)
    PROVE  Whole(e)
<1>1. CASE c.kind = "create"
  <2>1. Creates(d, e, c, now)
    BY <1>1 DEF Does
  <2>2. PICK i : i = Len(d.registry) + 1
    OBVIOUS
  <2>3. /\ KeepsRows(d, e, i) /\ OneRow(e, "object", i)
        /\ DOMAIN e.history = DOMAIN d.history \cup {Len(d.history) + 1}
    BY <2>1, <2>2 DEF Creates, FirstHead
  <2>4. QED
    BY <2>3, NewVersionWhole
<1>2. CASE c.kind \in {"update", "transfer", "renew"}
  <2>1. Writes(d, e, c.type, id, now)
    BY <1>2 DEF Does
  <2>2. /\ KeepsRows(d, e, id) /\ OneRow(e, "object", id)
        /\ DOMAIN e.history = DOMAIN d.history \cup {Len(d.history) + 1}
    BY <2>1 DEF Writes, NewHead
  <2>3. QED
    BY <2>2, NewVersionWhole
<1>3. CASE c.kind = "delete"
  <2>1. e.kept = d.kept /\ DOMAIN e.history = DOMAIN d.history
    BY <1>3 DEF Does, Erases, LastHead
  <2>2. QED
    BY <2>1, SameKeptWhole
<1>4. QED
  BY <1>1, <1>2, <1>3 DEF Announced

(* Requests of states write no version.                                    *)
LEMMA PerformedWhole ==
    ASSUME NEW d, NEW c, NEW now \in Nat, Sound(d), Whole(d), Call(c), Fits(d, c)
    PROVE  Whole(Performed(d, c, now))
<1>1. CASE c.kind \in Announced
  <2>1. PICK e : e = Performed(d, c, now)
    OBVIOUS
  <2>2. Grows(d, e)
    BY <2>1, PerformedFollows DEF Follows
  <2>3. PICK id : id = IdOf(d, c.type, c.name)
    OBVIOUS
  <2>4. Does(d, e, c, id, now)
    BY <1>1, <2>1, <2>3, PerformedDoes
  <2>5. QED
    BY <1>1, <2>1, <2>2, <2>4, DoesWhole
<1>2. CASE c.kind = "request"
  <2>1. Performed(d, c, now) = RequestState(d, c)
    BY <1>2 DEF Performed
  <2>2. RequestState(d, c).kept = d.kept /\ RequestState(d, c).history = d.history
    BY DEF RequestState, Sound, Shape
  <2>3. QED
    BY <2>1, <2>2, SameKeptWhole
<1>3. CASE c.kind = "cancelVerified"
  <2>1. Performed(d, c, now) = CancelFinalStatesIfChanged(d, c)
    BY <1>3 DEF Performed
  <2>2. \A i : CancelFinalStates(d, i).kept = d.kept /\ CancelFinalStates(d, i).history = d.history
    BY DEF CancelFinalStates, Sound, Shape
  <2>3. /\ CancelFinalStatesIfChanged(d, c).kept = d.kept
        /\ CancelFinalStatesIfChanged(d, c).history = d.history
    BY <2>2 DEF CancelFinalStatesIfChanged
  <2>4. QED
    BY <2>1, <2>3, SameKeptWhole
<1>4. QED
  BY <1>1, <1>2, <1>3, KindsOfCalls DEF Announced

LEMMA StartWhole == Whole(After[Len(Start)])
<1> DEFINE F == {m \in 0..Len(Start) : ~(Sound(After[m]) /\ Whole(After[m]))}
<1>1. Len(Start) \in Nat /\ DOMAIN Start = 1..Len(Start)
  BY StartIsFinite DEF StartLength
<1>2. SUFFICES ASSUME F # {} PROVE FALSE
  BY <1>1
<1>3. PICK m \in F : \A k \in F : m <= k
  <2>1. F \subseteq Nat
    BY <1>1
  <2>2. QED
    BY <2>1, <1>2, SmallestNumber
<1>4. m # 0
  <2>1. PICK d : d = EmptyDb
    OBVIOUS
  <2>2. DOMAIN d.history = {} /\ \A t \in Tables : d.kept[t] = {}
    BY <2>1 DEF EmptyDb
  <2>3. Whole(d)
    BY <2>2 DEF Whole
  <2>4. QED
    BY <2>1, <2>3, <1>3, AfterIs, EmptySound
<1>5. /\ m \in 1..Len(Start) /\ m - 1 \in 0..Len(Start) /\ m - 1 \in Nat /\ ~(m <= m - 1)
  BY <1>1, <1>3, <1>4
<1>6. Sound(After[m - 1]) /\ Whole(After[m - 1])
  BY <1>3, <1>5
<1>7. Call(Start[m]) /\ Fits(After[m - 1], Start[m])
  BY <1>1, <1>5, CallsKnown, StartSucceeds
<1>8. Follows(After[m - 1], Performed(After[m - 1], Start[m], m - 1))
  BY <1>5, <1>6, <1>7, PerformedFollows
<1>9. Whole(Performed(After[m - 1], Start[m], m - 1))
  BY <1>5, <1>6, <1>7, PerformedWhole
<1>10. Sound(After[m]) /\ Whole(After[m])
  BY <1>5, <1>8, <1>9, AfterIs DEF Follows
<1>11. QED
  BY <1>3, <1>10


-----------------------------------------------------------------------------
(* Whom poll messages go to                                                *)

(* The registrar of an object                                              *)
Holder(d, i) == {r.clid : r \in Rows(d, "object", i)}

(* The domains that name a contact                                         *)
DomainsOf(d, id) ==
    {r.id : r \in {x \in d.live["domain"] : x.registrant = id}
                  \cup {x \in d.live["domain_contact_map"] : x.contact = id}}

LEMMA SponsorsShown ==
    ASSUME NEW d, NEW h
    PROVE  /\ Sponsors(d, h) = {r.clid : r \in Shows(d, h, "object")}
           /\ \A t \in Tables : Version(d, h)[t] = Shows(d, h, t)
  BY TablesOfTypes DEF Sponsors, Version, Shows

LEMMA SponsorsStay ==
    ASSUME NEW d, NEW e, Grows(d, e), NEW h \in DOMAIN d.history
    PROVE  Sponsors(e, h) = Sponsors(d, h)
  BY SponsorsShown, TablesOfTypes DEF Grows

LEMMA CurrentSponsor ==
    ASSUME NEW d, Sound(d), NEW i \in DOMAIN d.registry, d.registry[i].erased = None
    PROVE  /\ d.registry[i].historyid \in VersionsOf(d, i)
           /\ d.registry[i].historyid \in DOMAIN d.history
           /\ Sponsors(d, d.registry[i].historyid) = Holder(d, i)
<1>1. d.registry[i].historyid \in VersionsOf(d, i)
  BY DEF Sound, Chains, ChainOf
<1>2. Shows(d, d.registry[i].historyid, "object") = Rows(d, "object", i)
  BY TablesOfTypes DEF Sound, CurrentShown
<1>3. QED
  BY <1>1, <1>2, OneOwner, SponsorsShown DEF Holder

(* The version before a new one                                            *)
LEMMA PreviousIs ==
    ASSUME NEW d, NEW e, NEW type, NEW id, NEW now, Sound(d), Whole(d), IsLive(d, type, id),
           NewHead(d, e, id, now), NEW h, h = Len(d.history) + 1
    PROVE  Previous(e, h) = {d.registry[id].historyid}
<1>1. PICK old : old = d.registry[id].historyid
  OBVIOUS
<1>2. /\ DOMAIN e.history = DOMAIN d.history \cup {h}
      /\ e.history[h] = [from |-> now, to |-> None, next |-> None]
      /\ \A k \in DOMAIN d.history :
            e.history[k] = IF k = old THEN [d.history[k] EXCEPT !.to = now, !.next = h]
                           ELSE d.history[k]
  BY <1>1 DEF NewHead
<1>3. h \in Nat /\ h \notin DOMAIN d.history /\ h # None
  BY ListFacts, NullIsNoTime DEF Sound, Shape
<1>4. old \in DOMAIN d.history
  BY <1>1, CurrentSponsor DEF IsLive
<1>5. e.history[old].next = h
  BY <1>2, <1>4 DEF Sound, Typed, VersionFits
<1>6. ASSUME NEW k \in DOMAIN d.history, k # old
      PROVE  e.history[k].next # h
  <2>1. e.history[k] = d.history[k]
    BY <1>2, <1>6
  <2>2. PICK i \in OwnersOf(d, k) : TRUE
    BY DEF Whole
  <2>3. i \in DOMAIN d.registry /\ k \in VersionsOf(d, i)
    BY <2>2, OwnersAreRegistered
  <2>4. ChainOf(d, i)
    BY <2>3 DEF Sound, Chains
  <2>5. d.history[k].next = None \/ d.history[k].next \in VersionsOf(d, i)
    BY <2>3, <2>4 DEF ChainOf
  <2>6. d.history[k].next = None \/ d.history[k].next \in DOMAIN d.history
    BY <2>5, OneOwner
  <2>7. QED
    BY <2>1, <2>6, <1>3
<1>7. e.history[h].next # h
  <2>1. PICK v : v = [from |-> now, to |-> None, next |-> None]
    OBVIOUS
  <2>2. v.next = None /\ e.history[h] = v
    BY <2>1, <1>2
  <2>3. QED
    BY <2>2, <1>3
<1>8. QED
  BY <1>1, <1>2, <1>4, <1>5, <1>6, <1>7 DEF Previous

(* What a change of an object makes of its versions                        *)
Renewed(d, e, type, id, now, h) ==
    /\ Sound(d) /\ Whole(d) /\ Sound(e) /\ Grows(d, e)
    /\ type \in Types /\ IsLive(d, type, id) /\ Writes(d, e, type, id, now)
    /\ now \in Nat /\ h = Len(d.history) + 1

LEMMA RenewedFacts ==
    ASSUME NEW d, NEW e, NEW type, NEW id, NEW now, NEW h, Renewed(d, e, type, id, now, h)
    PROVE  /\ Previous(e, h) = {d.registry[id].historyid}
           /\ Sponsors(e, d.registry[id].historyid) = Holder(d, id)
           /\ OwnersOf(e, h) = {id} /\ Sponsors(e, h) = Holder(e, id)
           /\ \A t \in Tables : Shows(e, h, t) = Rows(e, t, id)
           /\ e.registry[id].historyid = h /\ h \notin DOMAIN d.history
           /\ e.history[h].from = now
<1>1. Sound(d) /\ Whole(d) /\ Sound(e) /\ Grows(d, e) /\ IsLive(d, type, id)
      /\ Writes(d, e, type, id, now) /\ h = Len(d.history) + 1
  BY DEF Renewed
<1>2. NewHead(d, e, id, now) /\ KeepsRows(d, e, id) /\ OneRow(e, "object", id)
  BY <1>1 DEF Writes
<1>3. Previous(e, h) = {d.registry[id].historyid}
  BY <1>1, <1>2, PreviousIs
<1>4. /\ d.registry[id].historyid \in DOMAIN d.history
      /\ Sponsors(d, d.registry[id].historyid) = Holder(d, id)
  BY <1>1, CurrentSponsor DEF IsLive
<1>5. Sponsors(e, d.registry[id].historyid) = Holder(d, id)
  BY <1>1, <1>4, SponsorsStay
<1>6. \A t \in Tables : Shows(e, h, t) = Rows(e, t, id)
  BY <1>1, <1>2, KeepsShown DEF Sound
<1>7. Sponsors(e, h) = Holder(e, id)
  BY <1>6, SponsorsShown, TablesOfTypes DEF Holder
<1>8. OwnersOf(e, h) = {id}
  <2>1. PICK r : Rows(e, "object", id) = {r}
    BY <1>2 DEF OneRow
  <2>2. r.id = id
    BY <2>1 DEF Rows
  <2>3. QED
    BY <2>1, <2>2, <1>6, OwnersShown, TablesOfTypes
<1>9. e.registry[id].historyid = h
  BY <1>1, <1>2 DEF NewHead, IsLive, Sound, Typed, EntryFits
<1>10. h \notin DOMAIN d.history /\ e.history[h].from = now
  <2>1. PICK v : v = [from |-> now, to |-> None, next |-> None]
    OBVIOUS
  <2>2. v.from = now /\ e.history[h] = v
    BY <2>1, <1>1, <1>2 DEF NewHead
  <2>3. QED
    BY <2>2, <1>1, ListFacts DEF Sound, Shape
<1>11. QED
  BY <1>3, <1>5, <1>6, <1>7, <1>8, <1>9, <1>10


NamingTables == {"domain", "domain_contact_map"}

(* A row names a contact, as a registrant or as an administrator.          *)
NamesContact(t, r, id) ==
    \/ t = "domain" /\ r.registrant = id
    \/ t = "domain_contact_map" /\ r.contact = id

VersionNames(d, k, id) == \E t \in NamingTables : \E r \in Shows(d, k, t) : NamesContact(t, r, id)

LEMMA NamingRows ==
    ASSUME NEW d, NEW id
    PROVE  /\ NamingTables \subseteq Tables
           /\ \A i : i \in DomainsOf(d, id) <=>
                 \E t \in NamingTables : \E r \in d.live[t] : NamesContact(t, r, id) /\ r.id = i
<1>1. NamingTables \subseteq Tables
  BY DEF NamingTables, Tables, DomainTables
<1>2. ASSUME NEW i
      PROVE  i \in DomainsOf(d, id) <=>
                \/ \E r \in d.live["domain"] : r.registrant = id /\ r.id = i
                \/ \E r \in d.live["domain_contact_map"] : r.contact = id /\ r.id = i
  BY DEF DomainsOf
<1>3. QED
  BY <1>1, <1>2 DEF NamingTables, NamesContact

(* Rows that name a contact are those of domains.                          *)
LEMMA NamingIsLive ==
    ASSUME NEW d, Sound(d), NEW t \in NamingTables, NEW r \in d.live[t]
    PROVE  IsLive(d, "domain", r.id)
<1>1. Owned(d, t, r)
  BY DEF Sound, RowsFit, NamingTables, Tables, DomainTables
<1>2. PICK type \in Types : IsLive(d, type, r.id) /\ t \in {"object"} \cup TablesOf(type)
  BY <1>1 DEF Owned
<1>3. type = "domain"
  BY <1>2, TablesOfTypes DEF Types, NamingTables, ContactTables, NssetTables, KeysetTables
<1>4. QED
  BY <1>2, <1>3

(* The current version of a domain that names the contact holds.           *)
LEMMA CurrentIsValid ==
    ASSUME NEW d, NEW e, NEW id, NEW now, NEW h, Renewed(d, e, "contact", id, now, h),
           \A k \in DOMAIN d.history : d.history[k].from <= now,
           NEW i \in DomainsOf(d, id)
    PROVE  /\ i \in DOMAIN d.registry /\ d.registry[i].erased = None
           /\ d.registry[i].historyid \in DOMAIN d.history
           /\ VersionNames(e, d.registry[i].historyid, id)
           /\ ValidAt(e, d.registry[i].historyid, now)
<1>1. Sound(d) /\ Grows(d, e) /\ IsLive(d, "contact", id) /\ Writes(d, e, "contact", id, now)
  BY DEF Renewed
<1>2. PICK t \in NamingTables : \E r \in d.live[t] : NamesContact(t, r, id) /\ r.id = i
  BY NamingRows
<1>3. PICK r \in d.live[t] : NamesContact(t, r, id) /\ r.id = i
  BY <1>2
<1>4. IsLive(d, "domain", i)
  BY <1>1, <1>3, NamingIsLive
<1>5. i \in DOMAIN d.registry /\ d.registry[i].erased = None /\ i # id
  BY <1>1, <1>4 DEF IsLive
<1>6. PICK k : k = d.registry[i].historyid
  OBVIOUS
<1>7. k \in VersionsOf(d, i) /\ k \in DOMAIN d.history
  BY <1>1, <1>5, <1>6, CurrentSponsor
<1>8. t \in Tables
  BY NamingRows
<1>9. Shows(e, k, t) = Rows(d, t, i)
  BY <1>1, <1>5, <1>6, <1>7, <1>8 DEF Grows, Sound, CurrentShown
<1>10. VersionNames(e, k, id)
  BY <1>3, <1>9 DEF VersionNames, Rows
<1>11. PICK old : old = d.registry[id].historyid
  OBVIOUS
<1>12. k # old
  <2>1. old \in VersionsOf(d, id)
    BY <1>1, <1>11, CurrentSponsor DEF IsLive
  <2>2. k = old => {i} = {id}
    BY <2>1, <1>1, <1>7, OneOwner
  <2>3. QED
    BY <2>2, <1>5
<1>13. e.history[k] = d.history[k]
  BY <1>1, <1>7, <1>11, <1>12 DEF Writes, NewHead
<1>14. d.history[k].to = None
  BY <1>1, <1>5, <1>6, <1>7 DEF Sound, Chains, ChainOf
<1>15. ValidAt(e, k, now)
  BY <1>7, <1>13, <1>14 DEF ValidAt
<1>16. QED
  BY <1>5, <1>6, <1>7, <1>10, <1>15

(* A version that holds and names the contact is the current one of a      *)
(* domain that names it, if nothing before was stamped later.              *)
LEMMA ValidIsCurrent ==
    ASSUME NEW d, NEW e, NEW id, NEW now, NEW h, Renewed(d, e, "contact", id, now, h),
           \A k \in DOMAIN d.history : d.history[k].from <= now,
           \A i \in DOMAIN d.registry :
              d.registry[i].erased # None => d.registry[i].erased <= now,
           NEW k \in DOMAIN e.history, VersionNames(e, k, id), ValidAt(e, k, now)
    PROVE  \E i \in DomainsOf(d, id) : k = d.registry[i].historyid
<1>1. /\ Sound(d) /\ Whole(d) /\ Sound(e) /\ Grows(d, e) /\ now \in Nat
      /\ IsLive(d, "contact", id) /\ Writes(d, e, "contact", id, now) /\ h = Len(d.history) + 1
  BY DEF Renewed
<1>2. NewHead(d, e, id, now)
  BY <1>1 DEF Writes
<1>3. PICK t \in NamingTables : \E r \in Shows(e, k, t) : NamesContact(t, r, id)
  BY DEF VersionNames
<1>4. PICK r \in Shows(e, k, t) : NamesContact(t, r, id)
  BY <1>3
<1>5. t \in Tables
  BY NamingRows
<1>6. k # h
  <2> SUFFICES ASSUME k = h PROVE FALSE
    OBVIOUS
  <2>1. r \in Rows(e, t, id)
    BY <1>4, <1>5, RenewedFacts
  <2>2. IsLive(e, "domain", id)
    BY <2>1, <1>1, NamingIsLive DEF Rows
  <2>3. e.registry[id].type = "contact"
    BY <1>1 DEF Grows, IsLive
  <2>4. QED
    BY <2>2, <2>3 DEF IsLive
<1>7. k \in DOMAIN d.history
  BY <1>1, <1>2, <1>6 DEF NewHead
<1>8. r \in Shows(d, k, t)
  BY <1>1, <1>4, <1>5, <1>7 DEF Grows
<1>9. PICK i : i = r.id
  OBVIOUS
<1>10. i \in DOMAIN d.registry /\ k \in VersionsOf(d, i)
  <2>1. r.id \in OwnersOf(d, k)
    BY <1>1, <1>5, <1>8 DEF Whole, Shows
  <2>2. QED
    BY <2>1, <1>1, <1>9, OwnersAreRegistered
<1>11. PICK old : old = d.registry[id].historyid
  OBVIOUS
<1>12. k # old
  <2> SUFFICES ASSUME k = old PROVE FALSE
    OBVIOUS
  <2>1. e.history[k] = [d.history[k] EXCEPT !.to = now, !.next = h]
    BY <1>1, <1>2, <1>7, <1>11 DEF NewHead
  <2>2. e.history[k].to = now
    BY <2>1, <1>1, <1>7 DEF Sound, Typed, VersionFits
  <2>3. QED
    BY <2>2, <1>1, NullIsNoTime DEF ValidAt
<1>13. e.history[k] = d.history[k]
  BY <1>2, <1>7, <1>11, <1>12 DEF NewHead
<1>14. ChainOf(d, i)
  BY <1>1, <1>10 DEF Sound, Chains
<1>15. k = d.registry[i].historyid
  <2> SUFFICES ASSUME k # d.registry[i].historyid PROVE FALSE
    OBVIOUS
  <2>1. PICK g \in VersionsOf(d, i) : d.history[k].to = d.history[g].from
    BY <1>10, <1>14 DEF ChainOf
  <2>2. g \in DOMAIN d.history /\ VersionFits(d, d.history[g])
    BY <2>1, <1>1, OneOwner DEF Sound, Typed
  <2>3. d.history[k].to \in Nat /\ d.history[k].to <= now
    BY <2>1, <2>2 DEF VersionFits
  <2>4. QED
    BY <2>3, <1>1, <1>13, NullIsNoTime DEF ValidAt
<1>16. d.registry[i].erased = None
  <2> SUFFICES ASSUME d.registry[i].erased # None PROVE FALSE
    OBVIOUS
  <2>1. d.history[k].to = d.registry[i].erased
    BY <1>10, <1>14, <1>15 DEF ChainOf
  <2>2. d.registry[i].erased \in Nat /\ d.registry[i].erased <= now
    BY <1>1, <1>10 DEF Sound, Typed, EntryFits
  <2>3. QED
    BY <2>1, <2>2, <1>1, <1>13 DEF ValidAt
<1>17. r \in d.live[t]
  BY <1>1, <1>5, <1>8, <1>10, <1>15, <1>16 DEF Sound, CurrentShown, Rows
<1>18. i \in DomainsOf(d, id)
  BY <1>4, <1>9, <1>17, NamingRows
<1>19. QED
  BY <1>15, <1>18


(* The registrars of domains that named a contact when it was updated      *)
LEMMA AdditionalAre ==
    ASSUME NEW d, NEW e, NEW id, NEW now, NEW h, Renewed(d, e, "contact", id, now, h),
           \A k \in DOMAIN d.history : d.history[k].from <= now,
           \A i \in DOMAIN d.registry :
              d.registry[i].erased # None => d.registry[i].erased <= now,
           NEW n, n.h = h
    PROVE  AdditionalRecipients(e, n) = (UNION {Holder(d, i) : i \in DomainsOf(d, id)}) \ Holder(e, id)
<1>1. Sound(d) /\ Grows(d, e)
  BY DEF Renewed
<1>2. OwnersOf(e, h) = {id} /\ e.history[h].from = now /\ Sponsors(e, h) = Holder(e, id)
  BY RenewedFacts
<1>3. PICK K : K = {k \in DOMAIN e.history : VersionNames(e, k, id) /\ ValidAt(e, k, now)}
  OBVIOUS
<1>4. \A k : VersionNames(e, k, id) <=>
                \/ \E r \in Version(e, k)["domain"] : r.registrant = id
                \/ id \in LinkedIn(e, k, "domain_contact_map")
  <2>1. \A k : /\ Version(e, k)["domain"] = Shows(e, k, "domain")
               /\ Version(e, k)["domain_contact_map"] = Shows(e, k, "domain_contact_map")
    BY SponsorsShown DEF Tables, DomainTables
  <2>2. QED
    BY <2>1 DEF VersionNames, NamingTables, NamesContact, LinkedIn
<1>5. AdditionalRecipients(e, n) = (UNION {Sponsors(e, k) : k \in K}) \ Sponsors(e, h)
  <2>1. PICK W : W = {k \in DOMAIN e.history :
                         /\ \/ \E r \in Version(e, k)["domain"] : r.registrant \in {id}
                            \/ \E i \in {id} : i \in LinkedIn(e, k, "domain_contact_map")
                         /\ ValidAt(e, k, now)}
    OBVIOUS
  <2>2. AdditionalRecipients(e, n) = (UNION {Sponsors(e, k) : k \in W}) \ Sponsors(e, h)
    <3> DEFINE V == {k \in DOMAIN e.history :
                        /\ \/ \E r \in Version(e, k)["domain"] : r.registrant \in OwnersOf(e, n.h)
                           \/ \E i \in OwnersOf(e, n.h) : i \in LinkedIn(e, k, "domain_contact_map")
                        /\ ValidAt(e, k, e.history[n.h].from)}
    <3>1. AdditionalRecipients(e, n) = (UNION {Sponsors(e, k) : k \in V}) \ Sponsors(e, n.h)
      BY Zenon DEF AdditionalRecipients
    <3>2. V = W
      BY <2>1, <1>2
    <3> HIDE DEF V
    <3>3. QED
      BY <3>1, <3>2
  <2>3. W = K
    BY <2>1, <1>3, <1>4
  <2>4. QED
    BY <2>2, <2>3
<1>6. ASSUME NEW i \in DomainsOf(d, id)
      PROVE  d.registry[i].historyid \in K /\ Sponsors(e, d.registry[i].historyid) = Holder(d, i)
  <2>1. /\ i \in DOMAIN d.registry /\ d.registry[i].erased = None
        /\ d.registry[i].historyid \in DOMAIN d.history
        /\ VersionNames(e, d.registry[i].historyid, id)
        /\ ValidAt(e, d.registry[i].historyid, now)
    BY CurrentIsValid
  <2>2. d.registry[i].historyid \in DOMAIN e.history
    BY <2>1, <1>1 DEF Grows
  <2>3. Sponsors(e, d.registry[i].historyid) = Holder(d, i)
    BY <2>1, <1>1, CurrentSponsor, SponsorsStay
  <2>4. QED
    BY <2>1, <2>2, <2>3, <1>3
<1>7. \A k \in K : \E i \in DomainsOf(d, id) : k = d.registry[i].historyid
  BY <1>3, ValidIsCurrent
<1>8. UNION {Sponsors(e, k) : k \in K} = UNION {Holder(d, i) : i \in DomainsOf(d, id)}
  <2>1. ASSUME NEW x, x \in UNION {Sponsors(e, k) : k \in K}
        PROVE  x \in UNION {Holder(d, i) : i \in DomainsOf(d, id)}
    <3>1. PICK k \in K : x \in Sponsors(e, k)
      BY <2>1
    <3>2. PICK i \in DomainsOf(d, id) : k = d.registry[i].historyid
      BY <1>7
    <3>3. x \in Holder(d, i)
      BY <3>1, <3>2, <1>6
    <3>4. QED
      BY <3>3
  <2>2. ASSUME NEW x, x \in UNION {Holder(d, i) : i \in DomainsOf(d, id)}
        PROVE  x \in UNION {Sponsors(e, k) : k \in K}
    <3>1. PICK i \in DomainsOf(d, id) : x \in Holder(d, i)
      BY <2>2
    <3>2. QED
      BY <3>1, <1>6
  <2>3. QED
    BY <2>1, <2>2
<1>9. QED
  BY <1>2, <1>5, <1>8

(* An update of a contact tells its registrar only of what others do.      *)
LEMMA UpdateTells ==
    ASSUME NEW d, NEW c, NEW now \in Nat, NEW e, e = UpdateContact(d, c, now),
           NEW id, id = IdOf(d, "contact", c.name), NEW h,
           Renewed(d, e, "contact", id, now, h), NEW n, n = Notice("contact", "updated", h),
           \A k \in DOMAIN d.history : d.history[k].from <= now,
           \A i \in DOMAIN d.registry :
              d.registry[i].erased # None => d.registry[i].erased <= now
    PROVE  Recipients(e, n) = (Holder(d, id) \ {c.registrar})
                \cup ((UNION {Holder(d, i) : i \in DomainsOf(d, id)}) \ Holder(d, id))
<1>1. Sound(d) /\ IsLive(d, "contact", id) /\ Writes(d, e, "contact", id, now)
  BY DEF Renewed
<1>2. n.h = h /\ n.event = "updated" /\ n.type = "contact"
  BY DEF Notice
<1>3. PICK o : Rows(d, "object", id) = {o}
  BY <1>1 DEF Sound, RowsOfAll, IsLive, OneRow, Types
<1>4. PICK q : Rows(e, "object", id) = {q}
  BY <1>1 DEF Writes, OneRow
<1>5. q.clid = o.clid /\ q.upid = c.registrar
  BY <1>1, <1>3, <1>4, UpdateContactWrites
<1>6. Holder(d, id) = {o.clid} /\ Holder(e, id) = {o.clid}
  BY <1>3, <1>4, <1>5 DEF Holder
<1>7. /\ Previous(e, h) = {d.registry[id].historyid}
      /\ Sponsors(e, d.registry[id].historyid) = {o.clid} /\ Sponsors(e, h) = {o.clid}
      /\ Shows(e, h, "object") = {q}
  BY <1>4, <1>6, RenewedFacts, TablesOfTypes
<1>8. DoneBySponsor(e, n) <=> c.registrar = o.clid
  <2>1. Version(e, h)["object"] = {q}
    BY <1>7, SponsorsShown, TablesOfTypes
  <2>2. QED
    BY <2>1, <1>2, <1>5, <1>7 DEF DoneBySponsor
<1>9. (IF DoneBySponsor(e, n) THEN {} ELSE Sponsors(e, h)) = Holder(d, id) \ {c.registrar}
  BY <1>6, <1>7, <1>8
<1>10. AdditionalRecipients(e, n) = (UNION {Holder(d, i) : i \in DomainsOf(d, id)}) \ Holder(d, id)
  BY <1>2, <1>6, AdditionalAre
<1>11. Recipients(e, n) =
          AdditionalRecipients(e, n) \cup (IF DoneBySponsor(e, n) THEN {} ELSE Sponsors(e, h))
  BY <1>2 DEF Recipients
<1>12. QED
  BY <1>9, <1>10, <1>11


PInv == NInv /\ Whole(db)

LEMMA PollKeeps == PInv /\ [NoticesNext]_allVars => PInv'
<1> SUFFICES ASSUME PInv, [NoticesNext]_allVars PROVE PInv'
  OBVIOUS
<1>1. NInv'
  BY NoticesKeep DEF PInv
<1>2. ASSUME NEW p \in Process, NEW c \in Calls, NEW copies \in 1..2, Change(p, c, copies)
      PROVE  Whole(db')
  <2>1. /\ c.kind \in Announced /\ Sound(db) /\ Grows(db, db')
        /\ Does(db, db', c, Subject(db, c), stamp[p])
    BY <1>2, ChangeDoes DEF Change, PInv, NInv
  <2>2. QED
    BY <2>1, DoesWhole DEF PInv
<1>3. ASSUME UNCHANGED db
      PROVE  Whole(db')
  BY <1>3 DEF PInv
<1>4. UNCHANGED db \/ \E p \in Process, c \in Calls, copies \in 1..2 : Change(p, c, copies)
  BY DEF NoticesNext, allVars, vars, Begin, Rollback, TakeRequest, Gather, Send, Finish, Fail
<1>5. QED
  BY <1>1, <1>2, <1>3, <1>4 DEF PInv

(* Whom the messages about one version are for                             *)
MessagesFor(ms, h) == {m.clid : m \in {x \in ms : x.notice.h = h}}

Adds(ms, after, n, R) == after = ms \cup {[notice |-> n, clid |-> r] : r \in R}

(* Nobody has a message about a version that is not yet there.             *)
LEMMA MessagesOf ==
    ASSUME NEW d, NEW ms, \A m \in ms : Told(d, m.notice), NEW n, n.h \notin DOMAIN d.history,
           NEW R, NEW after, Adds(ms, after, n, R)
    PROVE  MessagesFor(after, n.h) = R
<1>0. PICK h : h = n.h
  OBVIOUS
<1>1. \A m \in ms : m.notice.h # h
  BY <1>0 DEF Told
<1>2. PICK N : N = {[notice |-> n, clid |-> r] : r \in R}
  OBVIOUS
<1>3. {x \in ms \cup N : x.notice.h = h} = N
  BY <1>0, <1>1, <1>2
<1>4. {m.clid : m \in N} = R
  <2>1. ASSUME NEW m \in N
        PROVE  m.clid \in R
    BY <1>2
  <2>2. ASSUME NEW r \in R
        PROVE  \E m \in N : m.clid = r
    <3>1. PICK m : m = [notice |-> n, clid |-> r]
      OBVIOUS
    <3>2. m \in N /\ m.clid = r
      BY <3>1, <1>2
    <3>3. QED
      BY <3>2
  <2>3. QED
    BY <2>1, <2>2
<1>5. QED
  BY <1>0, <1>2, <1>3, <1>4 DEF MessagesFor, Adds

(* A transfer and an update of a contact                                   *)
LEMMA ChangeTells ==
    ASSUME PInv, NEW p \in Process, NEW c \in Calls, Change(p, c, 1),
           c.kind \in {"transfer", "update"}, NEW id, id = IdOf(db, c.type, c.name)
    PROVE  LET got == MessagesFor(messages', db'.registry[id].historyid) IN
           /\ c.kind = "transfer" => got = Holder(db, id)
           /\ c.kind = "update" /\ c.type = "contact"
              /\ (\A k \in DOMAIN db.history : db.history[k].from <= stamp[p])
              /\ (\A i \in DOMAIN db.registry : db.registry[i].erased # None
                                               => db.registry[i].erased <= stamp[p])
              => got = (Holder(db, id) \ {c.registrar})
                       \cup ((UNION {Holder(db, i) : i \in DomainsOf(db, id)}) \ Holder(db, id))
<1>1. Perform(p, c)
  BY DEF Change
<1>2. /\ stamp[p] \in Nat /\ Sound(db) /\ Grows(db, db') /\ Does(db, db', c, id, stamp[p])
      /\ db' = Performed(db, c, stamp[p]) /\ Call(c)
  BY <1>1, ChangeDoes DEF PInv, NInv, Subject
<1>3. Whole(db) /\ Sound(db')
  <2>1. [Next]_vars
    BY <1>1 DEF Next
  <2>2. QED
    BY <2>1, NextFollows DEF PInv, NInv, IInv
<1>4. PICK now \in Nat : now = stamp[p]
  BY <1>2
<1>5. PICK type \in Types : type = c.type
  BY <1>2 DEF Does
<1>6. PICK h : h = Len(db.history) + 1
  OBVIOUS
<1>7. PICK e : e = db'
  OBVIOUS
<1>8. PICK d : d = db
  OBVIOUS
<1>9. Renewed(d, e, type, id, now, h)
  BY <1>2, <1>3, <1>4, <1>5, <1>6, <1>7, <1>8 DEF Renewed, Does
<1>10. PICK n : n = Notice(type, EventOf(c.kind), h)
  OBVIOUS
<1>11. e.registry[id].historyid = h /\ h \notin DOMAIN d.history
  BY <1>9, RenewedFacts
<1>12. messages' = messages \cup {[notice |-> n, clid |-> r] : r \in Recipients(e, n)}
  BY <1>5, <1>7, <1>10, <1>11 DEF Change
<1>13. \A m \in messages : Told(d, m.notice)
  BY <1>8 DEF PInv, NInv, MailInv, AllTold
<1>14. n.h = h
  BY <1>10 DEF Notice
<1>15. MessagesFor(messages', h) = Recipients(e, n)
  <2>1. Adds(messages, messages', n, Recipients(e, n))
    BY <1>12 DEF Adds
  <2>2. QED
    BY <2>1, <1>11, <1>13, <1>14, MessagesOf
<1>16. ASSUME c.kind = "transfer"
       PROVE  Recipients(e, n) = Holder(d, id)
  <2>1. n.event = "transferred" /\ n.h = h
    BY <1>10, <1>16 DEF Notice, EventOf
  <2>2. /\ Previous(e, h) = {d.registry[id].historyid}
        /\ Sponsors(e, d.registry[id].historyid) = Holder(d, id)
    BY <1>9, RenewedFacts
  <2>3. Recipients(e, n) = UNION {Sponsors(e, k) : k \in Previous(e, h)}
    BY <2>1 DEF Recipients
  <2>4. QED
    BY <2>2, <2>3
<1>17. ASSUME c.kind = "update", c.type = "contact",
              \A k \in DOMAIN d.history : d.history[k].from <= now,
              \A i \in DOMAIN d.registry : d.registry[i].erased # None
                                          => d.registry[i].erased <= now
       PROVE  Recipients(e, n) =
                 (Holder(d, id) \ {c.registrar})
                 \cup ((UNION {Holder(d, i) : i \in DomainsOf(d, id)}) \ Holder(d, id))
  <2>1. e = UpdateContact(d, c, now)
    BY <1>2, <1>4, <1>7, <1>8, <1>17 DEF Performed
  <2>2. n = Notice("contact", "updated", h)
    BY <1>5, <1>10, <1>17 DEF EventOf
  <2>3. id = IdOf(d, "contact", c.name) /\ Renewed(d, e, "contact", id, now, h)
    BY <1>5, <1>8, <1>9, <1>17
  <2>4. QED
    BY <2>1, <2>2, <2>3, <1>17, UpdateTells
<1>18. MessagesFor(messages', e.registry[id].historyid) = Recipients(e, n)
  BY <1>11, <1>15
<1>19. QED
  BY <1>4, <1>7, <1>8, <1>16, <1>17, <1>18

(* Poll messages go to the registrar who loses an object, and after an     *)
(* update of a contact to the registrars of the contact and of the domains *)
(* that name it as the tables were, but not to the one who made the        *)
(* update for a contact of its own.                                        *)
THEOREM PollGoesToConcerned == NoticesSpec => PollReachesConcerned
<1> DEFINE Reaches ==
        \A p \in Process : \A c \in Calls :
          Change(p, c, 1) /\ c.kind \in {"transfer", "update"} /\ c.type \in {"contact", "domain"} =>
              LET id == IdOf(db, c.type, c.name)
                  holder(i) == {r.clid : r \in Rows(db, "object", i)}
                  domains == {r.id : r \in {x \in db.live["domain"] : x.registrant = id}
                                            \cup {x \in db.live["domain_contact_map"] : x.contact = id}}
                  got == {m.clid : m \in {x \in messages' : x.notice.h = db'.registry[id].historyid}}
              IN /\ c.kind = "transfer" => got = holder(id)
                 /\ c.kind = "update" /\ c.type = "contact"
                    /\ (\A k \in DOMAIN db.history : db.history[k].from <= stamp[p])
                    /\ (\A i \in DOMAIN db.registry : db.registry[i].erased # None
                                                     => db.registry[i].erased <= stamp[p])
                    => got = (holder(id) \ {c.registrar})
                             \cup ((UNION {holder(i) : i \in domains}) \ holder(id))
<1>1. PInv => Reaches
  <2> SUFFICES ASSUME PInv, NEW p \in Process, NEW c \in Calls, Change(p, c, 1),
                      c.kind \in {"transfer", "update"}, NEW id, id = IdOf(db, c.type, c.name)
               PROVE  LET got == MessagesFor(messages', db'.registry[id].historyid) IN
                      /\ c.kind = "transfer" => got = Holder(db, id)
                      /\ c.kind = "update" /\ c.type = "contact"
                         /\ (\A k \in DOMAIN db.history : db.history[k].from <= stamp[p])
                         /\ (\A i \in DOMAIN db.registry : db.registry[i].erased # None
                                                          => db.registry[i].erased <= stamp[p])
                         => got = (Holder(db, id) \ {c.registrar})
                                  \cup ((UNION {Holder(db, i) : i \in DomainsOf(db, id)})
                                        \ Holder(db, id))
    BY DEF MessagesFor, Holder, DomainsOf
  <2>1. QED
    BY ChangeTells
<1>2. PInv /\ [NoticesNext]_allVars => [Reaches]_allVars
  BY <1>1
<1>3. NoticesInit => PInv
  <2>1. NoticesInit => db = After[Len(Start)]
    BY DEF NoticesInit, Init
  <2>2. QED
    BY <2>1, InitMail, StartWhole DEF PInv
<1>4. QED
  BY <1>2, <1>3, PollKeeps, PTL DEF NoticesSpec, PollReachesConcerned
=============================================================================
