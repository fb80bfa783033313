----------------------------- MODULE UsersTable -----------------------------
(***************************************************************************)
(* The user table of the admin console (components/UsersTable.js).         *)
(*                                                                         *)
(* Like the channel table it caches the user list page by page, but        *)
(* loadUsers appends a page with users.push(...data) on the array the      *)
(* calling render closed over, so arrays have identity here: `heap` maps   *)
(* an array reference to its contents, the state hook `users` and every    *)
(* outstanding call's closure hold references, and [...users] allocates a  *)
(* new array.  Unreferenced arrays are collected, which keeps the set of   *)
(* references finite without changing what any reference holds.           *)
(***************************************************************************)
EXTENDS Integers, SequencesExt, BagsExt, FiniteSetsExt

CONSTANTS
    N,              \* number of users on the server
    PageLen,        \* ITEMS_PER_PAGE, the page length of client and server
    Keywords,       \* search keywords the admin may type ("" included)
    Matches,        \* users the non-blank keyword finds
    Orders,         \* orderBy values offered by the sort dropdown
    Outcomes,       \* answers of a call: "ok", "fail", "throw"
    ManageActions,  \* row actions offered: "delete", "disable"
    MaxInFlight,    \* bound on outstanding calls
    MaxListLen      \* the admin clicks no further once the list is this long

ASSUME /\ N \in Nat \ {0} /\ PageLen \in Nat \ {0}
       /\ "" \in Keywords /\ Matches \subseteq 1..N /\ "" \in Orders
       /\ Outcomes \subseteq {"ok", "fail", "throw"} /\ "ok" \in Outcomes
       /\ ManageActions \subseteq {"delete", "disable"}
       /\ MaxInFlight \in Nat \ {0} /\ MaxListLen \in Nat \ {0}

Ids == 1..N

\* One reference per state hook and outstanding closure, and one spare.
Refs == 1..(MaxInFlight + 2)

VARIABLES
    db,            \* the server's users in default order
    heap,          \* heap[r]: the contents of the array with reference r
    users,         \* useState users: a reference
    activePage, userCount, loading, searching, searchKeyword, orderBy,
    pending,       \* bag of outstanding calls with what they closed over
    lastThrew      \* history: lastThrew[k] iff the last "load" / "search"
                   \* call to finish rejected

vars == <<db, heap, users, activePage, userCount, loading, searching,
          searchKeyword, orderBy, pending, lastThrew>>

Call(op, id, p, snap, act, order, andThen) ==
    [op |-> op, id |-> id, p |-> p, snap |-> snap, act |-> act,
     order |-> order, andThen |-> andThen]

InFlight == BagCardinality(pending)
CanCall == InFlight < MaxInFlight /\ Len(heap[users]) < MaxListLen
Issue(c) == pending' = BagAdd(pending, c)

Ceil(a, b) == (a + b - 1) \div b

\* GET /api/user/?p=&order=: one page of the list in the requested order.
ServerList(order) == IF order = "" THEN db ELSE Reverse(db)
ServerPage(order, p) ==
    LET s == ServerList(order)
    IN  SubSeq(s, p * PageLen + 1, Min({(p + 1) * PageLen, Len(s)}))

ServerSearch == SelectSeq(db, LAMBDA u : u \in Matches)

\* setCount, with the activePage of the render that called loadUsers.
SetCount(rows, act) ==
    IF Len(rows) >= act * PageLen THEN Len(rows) + 1 ELSE Len(rows)

List == heap[users]
NumPages == Max({1, Ceil(userCount, PageLen)})
PageData == SubSeq(List, (activePage - 1) * PageLen + 1,
                   Min({activePage * PageLen, Len(List)}))
OnPage(u) == \E i \in 1..Len(PageData) : PageData[i] = u

\* The references still in use once `users` is u and the calls are pend;
\* every other array is garbage and reads as empty.
Live(u, pend) == {u} \cup {c.snap : c \in BagToSet(pend)}
Collect(h, u, pend) == [r \in Refs |-> IF r \in Live(u, pend) THEN h[r] ELSE <<>>]

\* A reference to a new array: the least one nothing refers to.
Fresh == Min(Refs \ Live(users, pending))

\* The continuation leaves users = u and the calls pend over the heap h.
Settle(h, u, pend) ==
    /\ users' = u
    /\ pending' = pend
    /\ heap' = Collect(h, u, pend)

Init ==
    /\ db = [i \in Ids |-> i]
    /\ heap = [r \in Refs |-> <<>>]
    /\ users = 1
    /\ activePage = 1
    /\ userCount = PageLen
    /\ loading = TRUE
    /\ searching = FALSE
    /\ searchKeyword = ""
    /\ orderBy = ""
    \* useEffect([orderBy]) on mount: loadUsers(0)
    /\ pending = SetToBag({Call("load", 0, 0, 1, 1, "", "none")})
    /\ lastThrew = [k \in {"load", "search"} |-> FALSE]

(***************************************************************************)
(* Admin actions, each up to its first await.                              *)
(***************************************************************************)

\* handlePageChange: set the page; on the page just past the cache, load
\* it (loadUsers does not raise the spinner).
HandlePageChange(page) ==
    /\ page \in 1..NumPages \ {activePage}
    /\ activePage' = page
    /\ IF page = Ceil(Len(List), PageLen) + 1
          THEN /\ CanCall
               /\ Issue(Call("load", 0, page - 1, users, activePage, orderBy, "none"))
          ELSE UNCHANGED pending
    /\ UNCHANGED <<db, heap, users, userCount, loading, searching,
                   searchKeyword, orderBy, lastThrew>>

\* handleKeywordChange: the search box.
HandleKeywordChange(kw) ==
    /\ kw \in Keywords \ {searchKeyword}
    /\ searchKeyword' = kw
    /\ UNCHANGED <<db, heap, users, activePage, userCount, loading, searching,
                   orderBy, pending, lastThrew>>

\* searchUsers with the keyword of this render; refresh (called by the
\* add and edit panels after they save) does the same when a keyword is
\* set, and otherwise reloads the active page.
SearchIssue ==
    IF searchKeyword = ""
       THEN /\ Issue(Call("load", 0, 0, users, activePage, orderBy, "page1"))
            /\ UNCHANGED searching
       ELSE /\ searching' = TRUE
            /\ Issue(Call("search", 0, 0, users, activePage, orderBy, "none"))

SearchUsers ==
    /\ CanCall
    /\ SearchIssue
    /\ UNCHANGED <<db, heap, users, activePage, userCount, loading,
                   searchKeyword, orderBy, lastThrew>>

Refresh ==
    /\ CanCall
    /\ IF searchKeyword = ""
          THEN /\ Issue(Call("load", 0, activePage - 1, users, activePage,
                             orderBy, "none"))
               /\ UNCHANGED searching
          ELSE SearchIssue
    /\ UNCHANGED <<db, heap, users, activePage, userCount, loading,
                   searchKeyword, orderBy, lastThrew>>

\* Mutant: the order change resets to page index 0 instead of page 1.
HandleOrderByChangeZeroBased(o) ==
    /\ o \in Orders
    /\ orderBy' = o
    /\ activePage' = 0
    /\ IF o # orderBy
          THEN /\ CanCall
               /\ Issue(Call("load", 0, 0, users, 1, o, "none"))
          ELSE UNCHANGED pending
    /\ UNCHANGED <<db, heap, users, userCount, loading, searching,
                   searchKeyword, lastThrew>>

\* handleOrderByChange, and the useEffect on [orderBy] that reloads page 0.
HandleOrderByChange(o) ==
    /\ o \in Orders
    /\ orderBy' = o
    /\ activePage' = 1
    /\ IF o # orderBy
          THEN /\ CanCall
               /\ Issue(Call("load", 0, 0, users, 1, o, "none"))
          ELSE UNCHANGED pending
    /\ UNCHANGED <<db, heap, users, userCount, loading, searching,
                   searchKeyword, lastThrew>>

\* manageUser(username, action) from a row, with .then(removeRecord) for
\* delete.
ManageUser(u, action) ==
    /\ OnPage(u)
    /\ action \in ManageActions
    /\ CanCall
    /\ Issue(Call(action, u, 0, users, activePage, orderBy, "none"))
    /\ UNCHANGED <<db, heap, users, activePage, userCount, loading, searching,
                   searchKeyword, orderBy, lastThrew>>

(***************************************************************************)
(* A call completes: the server acts and answers, and the continuation     *)
(* runs on the answer, in any order; a rejected call ("throw") skips the   *)
(* continuation, whether or not the server acted.                          *)
(***************************************************************************)
Effect(c) ==
    IF c.op = "delete" THEN db' = SelectSeq(db, LAMBDA x : x # c.id)
                       ELSE UNCHANGED db

ServerHandles(c, out) ==
    \/ out = "ok" /\ Effect(c)
    \/ out = "fail" /\ UNCHANGED db
    \/ out = "throw" /\ (Effect(c) \/ UNCHANGED db)

\* loadUsers after the await: page 0 replaces the list, any other page is
\* pushed onto the array the caller closed over, which becomes the list.
\* After a blank-keyword searchUsers' `await loadUsers(0)`: setActivePage(1)
\* and setOrderBy(''), whose effect reloads page 0 if the order changed.
LoadReturns(c, out) ==
    /\ c.op = "load"
    /\ LET rows == ServerPage(c.order, c.p)
           h == IF out # "ok" THEN heap
                ELSE IF c.p = 0 THEN [heap EXCEPT ![Fresh] = rows]
                ELSE [heap EXCEPT ![c.snap] = @ \o rows]
           u == IF out # "ok" THEN users ELSE IF c.p = 0 THEN Fresh ELSE c.snap
           resumes == out # "throw" /\ c.andThen = "page1"
           rest == BagRemove(pending, c)
           pend == IF resumes /\ orderBy # ""
                      THEN BagAdd(rest, Call("load", 0, 0, u, 1, "", "none"))
                      ELSE rest
       IN  /\ Settle(h, u, pend)
           /\ userCount' = IF out = "ok" THEN SetCount(h[u], c.act) ELSE userCount
           /\ loading' = IF out = "throw" THEN loading ELSE FALSE
           /\ activePage' = IF resumes THEN 1 ELSE activePage
           /\ orderBy' = IF resumes THEN "" ELSE orderBy
    /\ lastThrew' = [lastThrew EXCEPT !["load"] = (out = "throw")]
    /\ UNCHANGED <<searching, searchKeyword>>

\* Mutant: setSearching(false) only when the search succeeded.
SearchReturnsClearOnOk(c, out) ==
    /\ c.op = "search"
    /\ IF out = "ok"
          THEN /\ Settle([heap EXCEPT ![Fresh] = ServerSearch], Fresh,
                         BagRemove(pending, c))
               /\ activePage' = 1
          ELSE /\ Settle(heap, users, BagRemove(pending, c))
               /\ UNCHANGED activePage
    /\ searching' = IF out = "ok" THEN FALSE ELSE searching
    /\ lastThrew' = [lastThrew EXCEPT !["search"] = (out = "throw")]
    /\ UNCHANGED <<userCount, loading, searchKeyword, orderBy>>

\* searchUsers after the await.
SearchReturns(c, out) ==
    /\ c.op = "search"
    /\ IF out = "ok"
          THEN /\ Settle([heap EXCEPT ![Fresh] = ServerSearch], Fresh,
                         BagRemove(pending, c))
               /\ activePage' = 1
          ELSE /\ Settle(heap, users, BagRemove(pending, c))
               /\ UNCHANGED activePage
    /\ searching' = IF out = "throw" THEN searching ELSE FALSE
    /\ lastThrew' = [lastThrew EXCEPT !["search"] = (out = "throw")]
    /\ UNCHANGED <<userCount, loading, searchKeyword, orderBy>>

\* manageUser after the await: on success setUsers([...users]) of the
\* closed-over array; then, for delete, removeRecord(id), which runs
\* whenever manageUser resolves and sets a copy of that same array
\* without the row, if the row is in it.
ManageReturns(c, out) ==
    /\ c.op \in {"delete", "disable"}
    /\ LET old == heap[c.snap]
           removes == c.op = "delete" /\ out # "throw" /\ Contains(old, c.id)
           copies == out = "ok"
           h == [heap EXCEPT ![Fresh] = IF removes THEN RemoveFirst(old, c.id) ELSE old]
       IN  IF removes \/ copies
              THEN Settle(h, Fresh, BagRemove(pending, c))
              ELSE Settle(heap, users, BagRemove(pending, c))
    /\ UNCHANGED <<activePage, userCount, loading, searching, searchKeyword,
                   orderBy, lastThrew>>

Complete(c) ==
    /\ \E out \in Outcomes :
          /\ ServerHandles(c, out)
          /\ \/ LoadReturns(c, out)
             \/ SearchReturns(c, out)
             \/ ManageReturns(c, out)

AdminStep ==
    \/ \E page \in 1..NumPages : HandlePageChange(page)
    \/ \E kw \in Keywords : HandleKeywordChange(kw)
    \/ SearchUsers
    \/ Refresh
    \/ \E o \in Orders : HandleOrderByChange(o)
    \/ \E u \in Ids, action \in ManageActions : ManageUser(u, action)

SystemStep == \E c \in BagToSet(pending) : Complete(c)

Next == AdminStep \/ SystemStep

\* The server answers every call and the browser runs every continuation.
Spec == Init /\ [][Next]_vars /\ WF_vars(SystemStep)

-----------------------------------------------------------------------------
(***************************************************************************)
(* Properties                                                              *)
(***************************************************************************)

Req == [op : {"load", "search", "delete", "disable"}, id : 0..N, p : Nat,
        snap : Refs, act : Nat \ {0}, order : Orders, andThen : {"none", "page1"}]

TypeOK ==
    /\ db \in Seq(Ids) /\ heap \in [Refs -> Seq(Ids)] /\ users \in Refs
    /\ activePage \in Nat \ {0} /\ userCount \in Nat
    /\ loading \in BOOLEAN /\ searching \in BOOLEAN
    /\ searchKeyword \in Keywords /\ orderBy \in Orders
    /\ IsABag(pending) /\ BagToSet(pending) \subseteq Req
    /\ lastThrew \in [{"load", "search"} -> BOOLEAN]

\* The table and search spinners are left on with nothing outstanding only
\* after a rejected call: every answered loadUsers and searchUsers turns
\* its flag off, over overlapping loads, searches and reloads chained by a
\* blank search.
StuckSpinnerOnlyAfterThrow ==
    InFlight = 0 => /\ loading => lastThrew["load"]
                    /\ searching => lastThrew["search"]

\* No user is listed twice (spec section 4: load more appends the next
\* page to the cache).
NoDuplicateUser ==
    IsInjective(List)

=============================================================================
