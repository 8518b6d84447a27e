----------------------------- MODULE ContactChecks -----------------------------
(***************************************************************************)
(* Checks of contacts and their tests: creation, changes of status, and    *)
(* the queries that collect a check with its history from several          *)
(* unlocked reads.                                                         *)
(*                                                                         *)
(* Triggers of the database keep the replaced states of a check and of a   *)
(* test: the rows here have past, the sequence of them, oldest first.  The *)
(* time of a state is that at which the transaction that made it began.    *)
(***************************************************************************)
EXTENDS Transactions, SequencesExt

CONSTANTS Suites,          \* Suites[s]: the tests of the test suite s
          CheckStatus, TestStatus,
          AfterTests,      \* the statuses of a check whose tests have finished
          MaxChanges       \* bound of the changes of a row

State(status, time) == [status |-> status, time |-> time]

(* The handle of a check is unique and is here the id of its row.          *)
CreateContactCheck(p) ==
    /\ At(p, "createCheck", "begun") /\ call[p].suite \in DOMAIN Suites
    /\ \E i \in NewIds("contact_check") :
          Written(p, {Row("contact_check", i,
              [suite |-> call[p].suite, state |-> State("enqueue_req", day[p]), past |-> <<>>])})
    /\ UNCHANGED <<locks, seen>>

TestsOf(check) ==
    {i \in RowsOf("contact_test_result") : db["contact_test_result"][i].check = check}

(* One test of a kind for a check                                          *)
CreateContactTest(p) ==
    LET c == call[p] IN
    /\ At(p, "createTest", "begun")
    /\ c.check \in RowsOf("contact_check")
    /\ c.test \in Suites[db["contact_check"][c.check].suite]
    /\ \A i \in TestsOf(c.check) : db["contact_test_result"][i].test # c.test
    /\ \A q \in Process \ {p} : \A d \in draft[q] :
          d.table = "contact_test_result" => ~(d.row.check = c.check /\ d.row.test = c.test)
    /\ \E i \in NewIds("contact_test_result") :
          Written(p, {Row("contact_test_result", i,
              [check |-> c.check, test |-> c.test, state |-> State("enqueued", day[p]), past |-> <<>>])})
    /\ UNCHANGED <<locks, seen>>

(* The trigger keeps the state that is replaced, unless nothing changes:   *)
(* besides the status, the request and the message of a test are the same. *)
ChangeState(p, table, id, status) ==
    LET old == db[table][id] IN
    \/ /\ Len(old.past) < MaxChanges
       /\ UpdateColumns(p, table, id,
                  [state |-> State(status, day[p]), past |-> Append(old.past, old.state)])
    \/ /\ status = old.state.status
       /\ UpdateColumns(p, table, id, [state |-> old.state])

UpdateContactCheck(p) ==
    /\ At(p, "updateCheck", "begun")
    /\ call[p].check \in RowsOf("contact_check") /\ call[p].status \in CheckStatus
    /\ ChangeState(p, "contact_check", call[p].check, call[p].status)
    /\ UNCHANGED seen

UpdateContactTest(p) ==
    /\ At(p, "updateTest", "begun") /\ call[p].status \in TestStatus
    /\ \E i \in TestsOf(call[p].check) :
          /\ db["contact_test_result"][i].test = call[p].test
          /\ ChangeState(p, "contact_test_result", i, call[p].status)
    /\ UNCHANGED seen

-----------------------------------------------------------------------------
(* InfoContactCheck reads the check, its tests, the past of these tests,   *)
(* and the past of the check, without locks.  The past is read in the      *)
(* order of the times, which are beginnings of transactions, and of the    *)
(* ids, which are given in the order of changes.                           *)

Current(table, ids) == [i \in ids |-> db[table][i].state]

Rank(past, i) ==
    Cardinality({j \in DOMAIN past :
        past[j].time < past[i].time \/ (past[j].time = past[i].time /\ j <= i)})

ByTime(past) == [k \in DOMAIN past |-> past[CHOOSE i \in DOMAIN past : Rank(past, i) = k]]

Past(table, ids) == [i \in ids |-> ByTime(db[table][i].past)]

ReadCheck(p) ==
    /\ At(p, "infoCheck", "begun") /\ call[p].check \in RowsOf("contact_check")
    /\ Read(p, [check |-> db["contact_check"][call[p].check].state], "checkRead")
    /\ UNCHANGED locks

ReadTests(p) ==
    /\ At(p, "infoCheck", "checkRead")
    /\ Read(p, [check |-> seen[p].check, tests |-> Current("contact_test_result", TestsOf(call[p].check))],
            "testsRead")
    /\ UNCHANGED locks

Appended(past, current) == [i \in DOMAIN current |-> Append(past[i], current[i])]

ReadPastOfTests(p) ==
    LET current == seen[p].tests IN
    /\ At(p, "infoCheck", "testsRead")
    /\ Read(p, [check |-> seen[p].check,
                tests |-> Appended(Past("contact_test_result", DOMAIN current), current)],
            "testsTold")
    /\ UNCHANGED locks

ReadPastOfCheck(p) ==
    /\ At(p, "infoCheck", "testsTold")
    /\ Written(p, {})
    /\ seen' = [seen EXCEPT ![p] =
          [tests |-> seen[p].tests,
           check |-> Append(ByTime(db["contact_check"][call[p].check].past), seen[p].check)]]
    /\ UNCHANGED locks

-----------------------------------------------------------------------------
(* ListContactChecks reads the checks and then, from their past, when the  *)
(* tests finished.                                                         *)

ListContactChecks(p) ==
    /\ At(p, "listChecks", "begun")
    /\ Read(p, Current("contact_check",
                       {i \in RowsOf("contact_check") :
                           call[p].status # None => db["contact_check"][i].state.status = call[p].status}),
            "listed")
    /\ UNCHANGED locks

FirstTime(states) ==
    LET times == {s.time : s \in {t \in states : t.status \in AfterTests}}
    IN IF times = {} THEN None ELSE CHOOSE t \in times : \A u \in times : t <= u

(* With a mistake: a check that was decided later has no such time.        *)
FinishOfCurrent(state, past) == FirstTime({state})

(* The past overrides what the current state says.                         *)
Finish(state, past) ==
    IF FirstTime(ToSet(past)) # None THEN FirstTime(ToSet(past)) ELSE FirstTime({state})

FindFinishTimes(p) ==
    /\ At(p, "listChecks", "listed")
    /\ Written(p, {})
    /\ seen' = [seen EXCEPT ![p] = [i \in DOMAIN seen[p] |->
          [status |-> seen[p][i].status,
           finished |-> Finish(seen[p][i], db["contact_check"][i].past)]]]
    /\ UNCHANGED locks

Verify(p) ==
    \/ CreateContactCheck(p) \/ CreateContactTest(p)
    \/ UpdateContactCheck(p) \/ UpdateContactTest(p)
    \/ ReadCheck(p) \/ ReadTests(p) \/ ReadPastOfTests(p) \/ ReadPastOfCheck(p)
    \/ ListContactChecks(p) \/ FindFinishTimes(p)
=============================================================================
