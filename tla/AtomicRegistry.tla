---------------------------- MODULE AtomicRegistry ----------------------------
(***************************************************************************)
(* What the register promises to a caller who knows nothing of row locks:  *)
(* every operation happens at one instant, on the data of that instant.    *)
(* An object is linked only to live objects, erased only while nothing     *)
(* refers to it, and moved only to a registrar that does not sponsor it.   *)
(*                                                                         *)
(* MergeContact is promised a little less: it leaves no link to the source *)
(* behind, but it may also re-link domains whose registrant has ceased to  *)
(* be the source (the set more below).                                     *)
(***************************************************************************)
EXTENDS RegistryObjects

CONSTANTS Requests,    \* the operations callers may ask for
          InitialDbs   \* the contents the register may start with

VARIABLE db

Init == db \in InitialDbs

Create(op) ==
    /\ op.kind = "create"
    /\ db[op.obj].life = "free"
    /\ \A r \in NewReferences(op) : IsLive(db, r)
    /\ db' = Created(db, op)

Update(op) ==
    /\ op.kind = "update"
    /\ IsLive(db, op.obj)
    /\ \A r \in NewReferences(op) : IsLive(db, r)
    /\ ContactsFit(db[op.obj], op)
    /\ db' = Updated(db, op)

Delete(op) ==
    /\ op.kind = "delete"
    /\ IsLive(db, op.obj)
    /\ op.obj \in Domains \/ ~IsLinked(db, op.obj)
    /\ db' = Erased(db, op.obj)

Renew(op) ==
    /\ op.kind = "renew"
    /\ IsLive(db, op.obj)
    /\ db' = Renewed(db, op)

Transfer(op) ==
    /\ op.kind = "transfer"
    /\ IsLive(db, op.obj)
    /\ db[op.obj].sponsor # op.registrar
    /\ db' = Transferred(db, op)

Merge(op) ==
    /\ op.kind = "merge"
    /\ IsLive(db, op.obj) /\ IsLive(db, op.dst)
    /\ \E more \in SUBSET {d \in Domains : IsLive(db, d)} :
          db' = Merged(db, op, RegisteredBy(db, op.obj) \cup more, ContactOf(db, op.obj))

Next ==
    \E op \in Requests :
        Create(op) \/ Update(op) \/ Delete(op) \/ Renew(op) \/ Transfer(op) \/ Merge(op)

Spec == Init /\ [][Next]_db
=============================================================================
