----------------------------- MODULE MjLogsTable -----------------------------
(***************************************************************************)
(* The Midjourney task log (components/MjLogsTable.js).  Like the channel  *)
(* table it keeps a client-side copy `logs` of the server's list, fetched  *)
(* page by page (p = startIdx, ITEMS_PER_PAGE rows) and spliced into the   *)
(* copy it closed over, and shows the slice of `activePage`.  The query    *)
(* is the filter form's `inputs` of the render that issued the load.       *)
(*                                                                         *)
(* Tasks are the numbers 1..N+M; the server lists the tasks that match the *)
(* query newest first, and the gateway records new tasks (N+1..N+M) while  *)
(* the page is open.  The filter form is abstracted to one field: ""        *)
(* (match all) or Filter, which matches the tasks in Matching.  The rows'  *)
(* other fields (prompt, image, timestamps) are display data and left out; *)
(* so are the prompt and image modals, whose state only shows a text.      *)
(***************************************************************************)
EXTENDS Integers, SequencesExt, BagsExt

CONSTANTS
    N,            \* tasks on the server when the page mounts
    M,            \* tasks the gateway may record while the page is open
    IPP,          \* ITEMS_PER_PAGE
    Filter,       \* a non-empty filter value (channel_id, mj_id or a time range)
    Matching,     \* the tasks Filter matches
    Outcomes,     \* answers of a call: "ok", "fail", "throw"
    MaxInFlight   \* bound on loads outstanding at once

ASSUME /\ N \in Nat /\ M \in Nat /\ IPP \in Nat \ {0}
       /\ Matching \subseteq 1..N + M
       /\ Outcomes \subseteq {"ok", "fail", "throw"} /\ "ok" \in Outcomes
       /\ MaxInFlight \in Nat \ {0}

Tasks == 1..N + M
Filters == {"", Filter}

VARIABLES
    srv,         \* the server's task list, newest first
    logs,        \* component state `logs`
    loading,     \* component state `loading` (the table's spinner)
    activePage,  \* component state `activePage`
    logCount,    \* component state `logCount` (the pager's total)
    inputs,      \* the filter form's `inputs`
    pending,     \* bag of loads issued whose continuation has not run
    lastThrew,   \* history: the last load to finish rejected
    queried      \* history: the filter of the last refresh

local == <<logs, loading, activePage, logCount, inputs, pending, lastThrew, queried>>
vars == <<srv, local>>

Ceil(a, b) == (a + b - 1) \div b

\* JavaScript's splice(start, deleteCount, ...items): both clamped.
Splice(s, start, del, items) ==
    LET st == IF start < Len(s) THEN start ELSE Len(s)
        en == IF st + del < Len(s) THEN st + del ELSE Len(s)
    IN  SubSeq(s, 1, st) \o items \o SubSeq(s, en + 1, Len(s))

\* GET /api/mj/?p=p&...: the p-th page of the tasks matching the query.
ServerPage(p, f) ==
    LET q == SelectSeq(srv, LAMBDA t : f = "" \/ t \in Matching)
    IN  SubSeq(q, p * IPP + 1, IF (p + 1) * IPP < Len(q) THEN (p + 1) * IPP ELSE Len(q))

NumPages == Ceil(logCount, IPP)

\* pageData: the rows of the current page.
PageData ==
    SubSeq(logs, (activePage - 1) * IPP + 1,
           IF activePage * IPP < Len(logs) THEN activePage * IPP ELSE Len(logs))

\* loadLogs(startIdx) up to its await, from a render whose logs is snap and
\* whose filter is f.
LoadLogs(p) ==
    /\ BagCardinality(pending) < MaxInFlight
    /\ loading' = TRUE
    /\ pending' = BagAdd(pending, [p |-> p, f |-> inputs, snap |-> logs])

\* Mount: the useState initial values, and useEffect([logType]) ->
\* refresh(): setActivePage(1), loadLogs(0) of the first render.
Mount ==
    /\ logs = <<>>
    /\ loading = TRUE
    /\ activePage = 1
    /\ logCount = IPP
    /\ inputs = ""
    /\ pending = SetToBag({[p |-> 0, f |-> "", snap |-> <<>>]})
    /\ lastThrew = FALSE
    /\ queried = ""

Init == srv = [i \in 1..N |-> N + 1 - i] /\ Mount

\* The page is mounted again (a route change back to it): React starts
\* from Mount's values; answers to the old instance's loads are dropped.
Remount ==
    /\ logs' = <<>>
    /\ loading' = TRUE
    /\ activePage' = 1
    /\ logCount' = IPP
    /\ inputs' = ""
    /\ pending' = SetToBag({[p |-> 0, f |-> "", snap |-> <<>>]})
    /\ lastThrew' = FALSE
    /\ queried' = ""

(***************************************************************************)
(* The user.  The filter form and the pager stay usable while the table   *)
(* spins.                                                                  *)
(***************************************************************************)

\* handleInputChange on a filter field.
HandleInputChange(f) ==
    /\ inputs' = f
    /\ UNCHANGED <<srv, logs, loading, activePage, logCount, pending, lastThrew, queried>>

\* refresh (the Query button): page 1, and loadLogs(0).
Refresh ==
    /\ activePage' = 1
    /\ LoadLogs(0)
    /\ queried' = inputs
    /\ UNCHANGED <<srv, logs, logCount, inputs, lastThrew>>

\* Mutant: the pager's 1-based page taken as a 0-based index.
HandlePageChangeZeroBased(page) ==
    /\ page \in 1..NumPages \ {activePage}
    /\ activePage' = page - 1
    /\ IF page = Ceil(Len(logs), IPP) + 1
          THEN LoadLogs(page - 1)
          ELSE UNCHANGED <<loading, pending>>
    /\ UNCHANGED <<srv, logs, logCount, inputs, lastThrew, queried>>

\* handlePageChange: go to the page; the page just past the cached rows is
\* loaded and spliced in.  The pager offers 1..ceil(logCount / IPP).
HandlePageChange(page) ==
    /\ page \in 1..NumPages \ {activePage}
    /\ activePage' = page
    /\ IF page = Ceil(Len(logs), IPP) + 1
          THEN LoadLogs(page - 1)
          ELSE UNCHANGED <<loading, pending>>
    /\ UNCHANGED <<srv, logs, logCount, inputs, lastThrew, queried>>

(***************************************************************************)
(* The gateway records a task; it is listed first.                         *)
(***************************************************************************)
RecordTask ==
    /\ Len(srv) < N + M
    /\ srv' = <<Len(srv) + 1>> \o srv
    /\ UNCHANGED local

(***************************************************************************)
(* A load completes: the server answers and loadLogs runs on: page 0       *)
(* replaces the list, a later page is spliced into the closed-over list,   *)
(* and setLogsFormat sets the pager's total one page past the rows.  A     *)
(* rejection skips it all, setLoading(false) included.                     *)
(***************************************************************************)

\* Mutant: setLoading(false) inside the `if (success)` branch only.
LoadReturnsClearOnOk(c, out) ==
    /\ IF out = "ok"
          THEN LET rows == ServerPage(c.p, c.f)
                   new  == IF c.p = 0 THEN rows
                           ELSE Splice(c.snap, c.p * IPP, Len(rows), rows)
               IN  /\ logs' = new
                   /\ logCount' = Len(new) + IPP
                   /\ loading' = FALSE
          ELSE UNCHANGED <<logs, logCount, loading>>
    /\ pending' = BagRemove(pending, c)
    /\ lastThrew' = (out = "throw")
    /\ UNCHANGED <<srv, activePage, inputs, queried>>

LoadReturns(c, out) ==
    /\ IF out = "ok"
          THEN LET rows == ServerPage(c.p, c.f)
                   new  == IF c.p = 0 THEN rows
                           ELSE Splice(c.snap, c.p * IPP, Len(rows), rows)
               IN  /\ logs' = new
                   /\ logCount' = Len(new) + IPP
          ELSE UNCHANGED <<logs, logCount>>
    /\ loading' = (out = "throw" /\ loading)
    /\ pending' = BagRemove(pending, c)
    /\ lastThrew' = (out = "throw")
    /\ UNCHANGED <<srv, activePage, inputs, queried>>

AdminStep ==
    \/ \E f \in Filters : HandleInputChange(f)
    \/ Refresh
    \/ \E page \in 1..NumPages : HandlePageChange(page)

SystemStep == \E c \in BagToSet(pending), out \in Outcomes : LoadReturns(c, out)

Next == AdminStep \/ SystemStep \/ RecordTask

\* The server answers every load and the browser runs every continuation.
Spec == Init /\ [][Next]_vars /\ WF_vars(SystemStep)

-----------------------------------------------------------------------------
(***************************************************************************)
(* Properties                                                              *)
(***************************************************************************)

Load == [p : Nat, f : Filters, snap : Seq(Tasks)]

TypeOK ==
    /\ srv \in Seq(Tasks) /\ logs \in Seq(Tasks)
    /\ loading \in BOOLEAN /\ lastThrew \in BOOLEAN
    /\ activePage \in Nat \ {0} /\ logCount \in Nat
    /\ inputs \in Filters /\ queried \in Filters
    /\ BagToSet(pending) \subseteq Load

\* The table spins with no load outstanding only after a load rejected:
\* every load that returns, ok or not, turns the spinner off.
StuckSpinnerOnlyAfterThrow ==
    loading /\ BagCardinality(pending) = 0 => lastThrew

\* The list shows no task twice.
NoDuplicateLog == IsInjective(logs)

\* After a Query with a filter has been answered, and with no load
\* outstanding, every task listed matches it: the pages spliced together
\* come from that query.
ListFromOneQuery ==
    queried = Filter /\ BagCardinality(pending) = 0
        => \A i \in 1..Len(logs) : logs[i] \in Matching

=============================================================================
