------------------------- MODULE ObjectStateRequests -------------------------
(***************************************************************************)
(* The states of one registered object that are set by request: the rows   *)
(* of object_state_request, each a time interval for one state, and the    *)
(* rows of object_state that are derived from them.  The operations        *)
(* serialise on one row lock per object, so that objects are independent.  *)
(*                                                                         *)
(* Every time in the SQL is CURRENT_TIMESTAMP, the time at which the       *)
(* transaction began.  A transaction that waited for the lock acts with a  *)
(* time that is earlier than what the previous holder of the lock did.     *)
(*                                                                         *)
(* The SQL functions lock_object_state_request_lock and                    *)
(* update_object_states are external.                                      *)
(***************************************************************************)
EXTENDS Naturals, Sequences

CONSTANTS States,         \* manual states of the object's type
          ServerStates,   \* those named server...
          serverBlocked,
          Process,        \* callers, each with one transaction at a time
          Calls,          \* what they may call
          None,           \* NULL
          MaxTime,        \* bound of the clock
          MaxRequests     \* bound of the requests for one state

ASSUME StatesKnown == ServerStates \subseteq States /\ serverBlocked \in ServerStates
ASSUME NoneIsNoTime == None \notin Nat
ASSUME BoundsAreNumbers == MaxTime \in Nat /\ MaxRequests \in Nat

Time == Nat \cup {None}

(* Arguments of CreateObjectStateRequestId and the like; the states of an  *)
(* administrative block are blocking ones.                                 *)
Call ==
    [kind : {"create", "cancel", "clear", "block", "unblock", "restore", "perform"},
     states : SUBSET States, from : Time, to : Time]

ASSUME CallsTyped ==
    /\ Calls \subseteq Call
    /\ \A c \in Calls : c.kind = "block" => c.states \subseteq ServerStates \ {serverBlocked}

VARIABLES now,       \* the clock
          requests,  \* requests[s]: rows of object_state_request, oldest first
          inEffect,  \* inEffect[s]: rows of object_state
          reasons,   \* requests[serverBlocked][i] has a row of object_state_request_reason
          call,      \* call[p]: the call that process p executes, if any
          stage,     \* stage[p]: how far it has come
          stamp,     \* stamp[p]: CURRENT_TIMESTAMP in its transaction
          previous,  \* previous[p]: the states it is going to restore
          lock       \* the holders of the object's lock

vars == <<now, requests, inEffect, reasons, call, stage, stamp, previous, lock>>
data == <<requests, inEffect, reasons>>

Request  == [from : Nat, to : Time, canceled : Time]
Interval == [from : Nat, to : Time]

-----------------------------------------------------------------------------
(* Comparisons as SQL makes them: not true when an operand is NULL         *)
Less(a, b)      == a # None /\ b # None /\ a < b
LessOrEq(a, b)  == a # None /\ b # None /\ a <= b

(* LEAST(canceled,valid_to)                                                *)
EndOf(row) == IF LessOrEq(row.canceled, row.to) \/ row.to = None THEN row.canceled ELSE row.to

(* The row stands and time t lies in it.                                   *)
IsActive(row, t) == row.canceled = None /\ row.from <= t /\ (row.to # None => t < row.to)

(* The rows of inEffect hold t.                                            *)
Covers(interval, t) == interval.from <= t /\ (interval.to # None => t < interval.to)

Rows(seq) == {seq[i] : i \in DOMAIN seq}

(* The condition under which CreateObjectStateRequestId reports that time  *)
(* intervals overlap.                                                      *)
Overlays(row, from, to) ==
    \/ Less(EndOf(row), row.from)
    \/ row.from <= from /\ (Less(from, EndOf(row)) \/ EndOf(row) = None)
    \/ (Less(row.from, to) \/ to = None) /\ (LessOrEq(to, EndOf(row)) \/ EndOf(row) = None)

-----------------------------------------------------------------------------
(* What an operation makes of the requests                                 *)

From(p) == IF call[p].from = None THEN stamp[p] ELSE call[p].from

(* Variants with a mistake in them, to see that the runs notice.  Here the *)
(* end is compared only with a beginning that the caller gives ...         *)
OutOfTurnIfFromGiven(p) == call[p].from # None /\ Less(call[p].to, call[p].from)

OutOfTurn(p) == Less(call[p].to, From(p))

Fits(reqs, states, from, to) ==
    \A s \in states : \A row \in Rows(reqs[s]) : ~Overlays(row, from, to)

Inserted(reqs, states, from, to) ==
    [s \in States |->
        IF s \in states
        THEN Append(reqs[s], [from |-> from, to |-> to, canceled |-> None]) ELSE reqs[s]]

Canceled(reqs, states, t) ==
    [s \in States |->
        IF s \in states
        THEN [i \in DOMAIN reqs[s] |->
                IF IsActive(reqs[s][i], t) THEN [reqs[s][i] EXCEPT !.canceled = t] ELSE reqs[s][i]]
        ELSE reqs[s]]

IsRequested(reqs, s, t) == \E row \in Rows(reqs[s]) : IsActive(row, t)

(* ... here only the block itself is canceled ...                          *)
BlockCleared(reqs, t) == Canceled(reqs, {serverBlocked}, t)

(* What ClearObjectStateRequestId leaves                                   *)
Cleared(reqs, t) == Canceled(reqs, ServerStates, t)

(* update_object_states: states that are requested now begin, those that   *)
(* are not end.                                                            *)
Performed(reqs, effect, t) ==
    [s \in States |->
        LET open == {i \in DOMAIN effect[s] : effect[s][i].to = None} IN
        IF IsRequested(reqs, s, t)
        THEN IF open = {} THEN Append(effect[s], [from |-> t, to |-> None]) ELSE effect[s]
        ELSE [i \in DOMAIN effect[s] |->
                IF i \in open THEN [effect[s][i] EXCEPT !.to = t] ELSE effect[s][i]]]

(* The serverBlocked request that gets the reason of a block: the newest   *)
(* that is valid now, if there is one.                                     *)
Reasoned(reqs, t) ==
    LET rows == reqs[serverBlocked]
        valid == {i \in DOMAIN rows : /\ rows[i].canceled = None /\ rows[i].from <= t
                                      /\ rows[i].to # None => t <= rows[i].to}
    IN {i \in valid : \A j \in valid : j <= i}

-----------------------------------------------------------------------------
(* The states that a restore brings back                                   *)

Blocks == Rows(inEffect[serverBlocked])

Latest(rows) == {r \in rows : \A q \in rows : q.from <= r.from}

(* The row before it ends when this one begins.                            *)
FollowsUp(row) ==
    \E r \in Latest({q \in Blocks : q.from < row.from}) : r.to = row.from

(* The beginning of the sequence of blocks to which the current one        *)
(* belongs.                                                                *)
BlockStarts(t) ==
    LET current == Latest({r \in Blocks : r.to # None => t <= r.to})
    IN Latest({r \in Blocks : ~FollowsUp(r) /\ \E c \in current : r.from <= c.from})

(* ... here a state that ended as the block began counts as over ...       *)
StillBefore(start) ==
    {s \in ServerStates :
        \E r \in Rows(inEffect[s]) : r.from < start.from /\ (r.to # None => start.from < r.to)}

(* The states in effect until the block began.                             *)
Before(start) ==
    {s \in ServerStates :
        \E r \in Rows(inEffect[s]) : r.from < start.from /\ (r.to # None => start.from <= r.to)}

-----------------------------------------------------------------------------
TypeOK ==
    /\ now \in Nat
    /\ requests \in [States -> Seq(Request)]
    /\ inEffect \in [States -> Seq(Interval)]
    /\ reasons \subseteq Nat
    /\ call \in [Process -> Calls \cup {None}]
    /\ stage \in [Process -> {"idle", "begun", "locked", "checked"}]
    /\ stamp \in [Process -> Nat]
    /\ previous \in [Process -> SUBSET States]
    /\ lock = {p \in Process : stage[p] \in {"locked", "checked"}}

Init ==
    /\ now = 0
    /\ requests = [s \in States |-> <<>>]
    /\ inEffect = [s \in States |-> <<>>]
    /\ reasons = {}
    /\ call = [p \in Process |-> None]
    /\ stage = [p \in Process |-> "idle"]
    /\ stamp = [p \in Process |-> 0]
    /\ previous = [p \in Process |-> {}]
    /\ lock = {}

Tick ==
    /\ now < MaxTime
    /\ now' = now + 1
    /\ UNCHANGED <<data, call, stage, stamp, previous, lock>>

(* A caller begins a transaction, from which the operation takes the time. *)
Begin(p) ==
    /\ stage[p] = "idle"
    /\ stage' = [stage EXCEPT ![p] = "begun"]
    /\ stamp' = [stamp EXCEPT ![p] = now]
    /\ UNCHANGED <<now, data, call, previous, lock>>

(* COMMIT or ROLLBACK                                                      *)
End(p) ==
    /\ stage' = [stage EXCEPT ![p] = "idle"]
    /\ stamp' = [stamp EXCEPT ![p] = 0]
    /\ previous' = [previous EXCEPT ![p] = {}]
    /\ lock' = lock \ {p}
    /\ call' = [call EXCEPT ![p] = None]
    /\ UNCHANGED now

(* ... and here nobody waits for it.                                       *)
LockAtOnce(p) ==
    /\ stage[p] = "begun"
    /\ lock' = lock \cup {p}
    /\ call' \in {[call EXCEPT ![p] = c] : c \in Calls}
    /\ stage' = [stage EXCEPT ![p] = "locked"]
    /\ UNCHANGED <<now, data, stamp, previous>>

(* The caller makes a call; LockObjectStateRequestLock waits for the       *)
(* transaction that holds the lock.                                        *)
Lock(p) ==
    /\ stage[p] = "begun"
    /\ lock = {}
    /\ lock' = {p}
    /\ call' \in {[call EXCEPT ![p] = c] : c \in Calls}
    /\ stage' = [stage EXCEPT ![p] = "locked"]
    /\ UNCHANGED <<now, data, stamp, previous>>

(* Any error, or a caller that gives up: nothing of it remains.            *)
Rollback(p) ==
    /\ stage[p] # "idle"
    /\ End(p)
    /\ UNCHANGED data

Calling(p, kind, at) == stage[p] = at /\ call[p].kind = kind

Checked(p, restored) ==
    /\ stage' = [stage EXCEPT ![p] = "checked"]
    /\ previous' = [previous EXCEPT ![p] = restored]
    /\ UNCHANGED <<now, data, call, stamp, lock>>

(* Callers commit an operation together with PerformObjectStateRequest.    *)
Commit(p, reqs) ==
    /\ requests' = reqs
    /\ inEffect' = Performed(reqs, inEffect, stamp[p])
    /\ \A s \in States : Len(reqs[s]) <= MaxRequests
    /\ End(p)

-----------------------------------------------------------------------------
(* The operations.  Each reads under the lock, then writes; one that finds *)
(* an error throws, and its caller's Rollback is all that follows.         *)

CheckCreate(p) ==
    /\ Calling(p, "create", "locked")
    /\ ~OutOfTurn(p)
    /\ Fits(requests, call[p].states, From(p), call[p].to)
    /\ Checked(p, {})

CreateObjectStateRequestId(p) ==
    /\ Calling(p, "create", "checked")
    /\ Commit(p, Inserted(requests, call[p].states, From(p), call[p].to))
    /\ UNCHANGED reasons

(* Every state of the list must have a request to cancel.                  *)
CancelObjectStateRequestId(p) ==
    /\ Calling(p, "cancel", "locked")
    /\ \A s \in call[p].states : IsRequested(requests, s, stamp[p])
    /\ Commit(p, Canceled(requests, call[p].states, stamp[p]))
    /\ UNCHANGED reasons

ClearObjectStateRequestId(p) ==
    /\ Calling(p, "clear", "locked")
    /\ Commit(p, Cleared(requests, stamp[p]))
    /\ UNCHANGED reasons

(* The object must not be blocked.  Its server states are cleared first.   *)
CheckBlock(p) ==
    /\ Calling(p, "block", "locked")
    /\ call[p].states # {}
    /\ \A r \in Blocks : ~Covers(r, stamp[p])
    /\ ~OutOfTurn(p)
    /\ Fits(Cleared(requests, stamp[p]), call[p].states \cup {serverBlocked}, From(p), call[p].to)
    /\ Checked(p, {})

CreateAdminObjectBlockRequestId(p) ==
    LET reqs == Inserted(Cleared(requests, stamp[p]), call[p].states \cup {serverBlocked},
                         From(p), call[p].to)
    IN /\ Calling(p, "block", "checked")
       /\ Commit(p, reqs)
       /\ reasons' = reasons \cup Reasoned(reqs, stamp[p])

(* The object must have been blocked.                                      *)
ClearAdminObjectStateRequestId(p) ==
    /\ Calling(p, "unblock", "locked")
    /\ IsRequested(requests, serverBlocked, stamp[p])
    /\ Commit(p, Cleared(requests, stamp[p]))
    /\ UNCHANGED reasons

CheckRestore(p) ==
    /\ Calling(p, "restore", "locked")
    /\ \E r \in Blocks : Covers(r, stamp[p])
    /\ IsRequested(requests, serverBlocked, stamp[p])
    /\ \E restored \in {Before(start) : start \in BlockStarts(stamp[p])}
                        \cup (IF BlockStarts(stamp[p]) = {} THEN {{}} ELSE {}) :
          /\ Fits(Cleared(requests, stamp[p]), restored, stamp[p], None)
          /\ Checked(p, restored)

CreateAdminObjectStateRestoreRequestId(p) ==
    /\ Calling(p, "restore", "checked")
    /\ Commit(p, Inserted(Cleared(requests, stamp[p]), previous[p], stamp[p], None))
    /\ UNCHANGED reasons

(* PerformObjectStateRequest alone, as it is run from time to time         *)
PerformObjectStateRequest(p) ==
    /\ Calling(p, "perform", "locked")
    /\ Commit(p, requests)
    /\ UNCHANGED reasons

Operate(p) ==
    \/ Lock(p)
    \/ CheckCreate(p) \/ CreateObjectStateRequestId(p)
    \/ CancelObjectStateRequestId(p) \/ ClearObjectStateRequestId(p)
    \/ CheckBlock(p) \/ CreateAdminObjectBlockRequestId(p)
    \/ ClearAdminObjectStateRequestId(p)
    \/ CheckRestore(p) \/ CreateAdminObjectStateRestoreRequestId(p)
    \/ PerformObjectStateRequest(p)

Next == Tick \/ \E p \in Process : Begin(p) \/ Operate(p) \/ Rollback(p)

Spec == Init /\ [][Next]_vars
-----------------------------------------------------------------------------
(* No request ends before it begins (one that did would make every later   *)
(* request for its state fail, whatever interval that asks for).           *)
RequestsAreInOrder ==
    \A s \in States : \A row \in Rows(requests[s]) : ~Less(EndOf(row), row.from)

(* Two requests for a state are valid at the same time.                    *)
Share(row1, row2) ==
    /\ row1.from < row2.from => (EndOf(row1) = None \/ row2.from < EndOf(row1))
    /\ row2.from <= row1.from => (EndOf(row2) = None \/ row1.from < EndOf(row2))
    /\ EndOf(row1) # row1.from /\ EndOf(row2) # row2.from

(* If two requests for a state overlap, the one made later begins earlier. *)
OverlapBeginsEarlier ==
    \A s \in States : \A i, j \in DOMAIN requests[s] :
        i < j /\ Share(requests[s][i], requests[s][j]) =>
            requests[s][j].from < requests[s][i].from

(* No two requests for a state overlap.                                    *)
NoOverlap ==
    \A s \in States : \A i, j \in DOMAIN requests[s] :
        i < j => ~Share(requests[s][i], requests[s][j])

(* The row has neither been canceled nor has it ended.                     *)
Stands(row, t) == row.canceled = None /\ (row.to # None => t < row.to)

(* After a block, whether it begins at once or later, two kinds of         *)
(* requests for server states stand: its own, and those made before that   *)
(* begin after the time of its transaction.  These were asked for a later  *)
(* time, or by a transaction that began later and yet had the lock first;  *)
(* ClearObjectStateRequestId passes over them, and they stay as they were. *)
BlockReplacesServerStates ==
    [][\A p \in Process : CreateAdminObjectBlockRequestId(p) =>
          \A s \in ServerStates : \A i \in DOMAIN requests'[s] :
              LET row == requests'[s][i] IN
              Stands(row, stamp[p]) =>
                  IF i \in DOMAIN requests[s]
                  THEN row = requests[s][i] /\ stamp[p] < row.from
                  ELSE s \in call[p].states \cup {serverBlocked}]_vars

(* A restore asks again for every state that was in effect when the block  *)
(* (the first of a sequence of blocks) canceled it.                        *)
RestoreLosesNothing ==
    [][\A p \in Process : CreateAdminObjectStateRestoreRequestId(p) =>
          \A start \in BlockStarts(stamp[p]), s \in ServerStates :
              /\ \E row \in Rows(requests[s]) : row.canceled = start.from
              /\ \E r \in Rows(inEffect[s]) : r.from < start.from /\ r.to = start.from
              => IsRequested(requests', s, stamp[p])]_vars
=============================================================================
