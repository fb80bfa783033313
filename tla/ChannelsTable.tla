---------------------------- MODULE ChannelsTable ----------------------------
(***************************************************************************)
(* The channel list of the admin console (components/ChannelsTable.js).    *)
(*                                                                         *)
(* The component keeps a client-side copy `channels` of the server's       *)
(* channel list, fetched page by page (`p`, `page_size`) and spliced into  *)
(* the copy, and shows the slice of it that belongs to `activePage`.       *)
(* Every handler is an async function: it issues an API call, suspends at  *)
(* `await`, and runs its continuation when the answer arrives, with the    *)
(* values of `channels`, `pageSize` and `activePage` it closed over when   *)
(* the admin clicked (the React render that created the handler).  So a    *)
(* call is modelled in three steps: the click (issues the call and records *)
(* the closure), the server handling it (changes the server list and       *)
(* computes the answer), and the continuation (applies the answer to the   *)
(* component state).  Answers arrive in any order: nothing in the code     *)
(* serialises them.                                                        *)
(*                                                                         *)
(* Channels are the numbers 1..N in server order; the rows' other fields   *)
(* (name, type, balance, response time) are display data and left out.     *)
(***************************************************************************)
EXTENDS Integers, SequencesExt, BagsExt, FiniteSetsExt

CONSTANTS
    N,               \* channels on the server when the page opens
    PageSizes,       \* the pager's pageSizeOpts
    DefaultPageSize, \* ITEMS_PER_PAGE, the initial pageSize state
    Keywords,        \* what the admin may type in the search box
    Matches,         \* channels the server's search matches for a non-empty keyword
    Outcomes,        \* answers of an API call: "ok", "fail" (success = false),
                     \* "throw" (the promise rejects: transport error)
    ManageActions,   \* the row buttons modelled: "enable", "disable", "priority"
    MaxInFlight      \* bound on API calls outstanding at once

ASSUME /\ N \in Nat \ {0}
       /\ PageSizes \subseteq Nat \ {0} /\ DefaultPageSize \in PageSizes
       /\ "" \in Keywords /\ Matches \subseteq 1..N
       /\ "ok" \in Outcomes /\ Outcomes \subseteq {"ok", "fail", "throw"}
       /\ ManageActions \subseteq {"enable", "disable", "priority"}
       /\ MaxInFlight \in Nat \ {0}

Ids == 1..N

VARIABLES
    db,            \* the server's channel list, in the order it pages it
    enabled,       \* enabled[c]: channel c has status 1 on the server
    channels,      \* component state `channels`
    activePage,    \* component state `activePage`
    pageSize,      \* component state `pageSize`
    channelCount,  \* component state `channelCount` (the pager's total)
    loading,       \* component state `loading` (table spinner)
    searching,     \* component state `searching` (search box spinner)
    pending,       \* bag of calls issued whose continuation has not run
    removed,       \* history: channels whose deletion the admin saw succeed
    lastThrew      \* history: lastThrew[k] iff the last "load" / "search" call
                   \* to finish rejected (transport error)

server == <<db, enabled>>
ui == <<channels, activePage, pageSize, channelCount, loading, searching>>
vars == <<server, ui, pending, removed, lastThrew>>

(***************************************************************************)
(* Calls.  One record shape for all of them; the fields a call does not   *)
(* use hold 0, <<>> or "none".  `snap`, `ps`, `fmtPs` and `page` are the   *)
(* values the handler closed over.                                         *)
(***************************************************************************)
Call(op, id, p, ps, fmtPs, snap, andThen) ==
    [op |-> op, id |-> id, p |-> p, ps |-> ps, fmtPs |-> fmtPs,
     snap |-> snap, andThen |-> andThen]

\* loadChannels(startIdx, pageSize, idSort) called from a render whose
\* `channels` is snap and whose `pageSize` state (read by setChannelFormat)
\* is fmtPs.
LoadCall(p, ps, fmtPs, snap, andThen) == Call("load", 0, p, ps, fmtPs, snap, andThen)

InFlight == BagCardinality(pending)

CanCall == InFlight < MaxInFlight

Issue(c) == pending' = BagAdd(pending, c)

Ceil(a, b) == (a + b - 1) \div b

\* JavaScript's Array.prototype.splice(start, deleteCount, ...items) on s:
\* start and deleteCount are clamped to the array.
Splice(s, start, del, items) ==
    LET st == Min({start, Len(s)})
        en == Min({st + del, Len(s)})
    IN  SubSeq(s, 1, st) \o items \o SubSeq(s, en + 1, Len(s))

\* The rows the server returns for GET /api/channel/?p=p&page_size=ps.
ServerPage(p, ps) == SubSeq(db, p * ps + 1, Min({(p + 1) * ps, Len(db)}))

\* The rows the server returns for GET /api/channel/search.
ServerSearch == SelectSeq(db, LAMBDA c : c \in Matches)

\* setChannelFormat: the pager's total is one page past the data when the
\* data fills at least one page of the closed-over pageSize.
FormatCount(rows, fmtPs) ==
    IF Len(rows) >= fmtPs THEN Len(rows) + fmtPs ELSE Len(rows)

NumPages == Max({1, Ceil(channelCount, pageSize)})

\* pageData: the rows of the current page.
PageData ==
    SubSeq(channels, (activePage - 1) * pageSize + 1,
           Min({activePage * pageSize, Len(channels)}))

OnPage(c) == \E i \in 1..Len(PageData) : PageData[i] = c

(***************************************************************************)
(* Initial state: the first render (useState initial values) and the      *)
(* mount effect, which reads page-size from localStorage, sets pageSize   *)
(* and calls loadChannels(0, localPageSize) from the first render, whose   *)
(* channels is [] and whose pageSize is ITEMS_PER_PAGE.                    *)
(***************************************************************************)
Init ==
    /\ db = [i \in Ids |-> i]
    /\ enabled = [c \in Ids |-> TRUE]
    /\ channels = <<>>
    /\ activePage = 1
    /\ channelCount = DefaultPageSize
    /\ loading = TRUE
    /\ searching = FALSE
    /\ \E localPageSize \in PageSizes :
          /\ pageSize = localPageSize
          /\ pending = SetToBag({LoadCall(0, localPageSize, DefaultPageSize, <<>>, "none")})
    /\ removed = {}
    /\ lastThrew = [k \in {"load", "search"} |-> FALSE]

(***************************************************************************)
(* Admin actions (clicks).  Each one runs a handler up to its first await. *)
(***************************************************************************)

\* handlePageChange: go to the page; when it is the page just past the
\* cached rows, load it and splice it in.  The pager offers the pages
\* 1..ceil(channelCount / pageSize) and fires only on a change of page.
HandlePageChange(page) ==
    /\ page \in 1..NumPages \ {activePage}
    /\ activePage' = page
    /\ IF page = Ceil(Len(channels), pageSize) + 1
          THEN /\ CanCall
               /\ loading' = TRUE
               /\ Issue(LoadCall(page - 1, pageSize, pageSize, channels, "none"))
          ELSE UNCHANGED <<loading, pending>>
    /\ UNCHANGED <<server, channels, pageSize, channelCount, searching, removed, lastThrew>>

\* Mutant: the page-0 request index reused as the active page,
\* setActivePage(0) next to loadChannels(0, size).
HandlePageSizeChangeZeroBased(size) ==
    /\ size \in PageSizes \ {pageSize}
    /\ CanCall
    /\ pageSize' = size
    /\ activePage' = 0
    /\ loading' = TRUE
    /\ Issue(LoadCall(0, size, pageSize, channels, "none"))
    /\ UNCHANGED <<server, channels, channelCount, searching, removed, lastThrew>>

\* handlePageSizeChange: store the size, go to page 1 and reload page 0 at
\* the new size; setChannelFormat still sees the old pageSize.
HandlePageSizeChange(size) ==
    /\ size \in PageSizes \ {pageSize}
    /\ CanCall
    /\ pageSize' = size
    /\ activePage' = 1
    /\ loading' = TRUE
    /\ Issue(LoadCall(0, size, pageSize, channels, "none"))
    /\ UNCHANGED <<server, channels, channelCount, searching, removed, lastThrew>>

\* refresh (the Refresh button, and EditChannel's props.refresh).
Refresh ==
    /\ CanCall
    /\ loading' = TRUE
    /\ Issue(LoadCall(activePage - 1, pageSize, pageSize, channels, "none"))
    /\ UNCHANGED <<server, channels, activePage, pageSize, channelCount,
                   searching, removed, lastThrew>>

\* searchChannels: a blank keyword reloads page 0 and goes to page 1 after
\* the load returns; otherwise it queries /api/channel/search.
SearchChannels(kw) ==
    /\ kw \in Keywords
    /\ CanCall
    /\ IF kw = ""
          THEN /\ loading' = TRUE
               /\ Issue(LoadCall(0, pageSize, pageSize, channels, "page1"))
               /\ UNCHANGED searching
          ELSE /\ searching' = TRUE
               /\ Issue(Call("search", 0, 0, 0, 0, <<>>, "none"))
               /\ UNCHANGED loading
    /\ UNCHANGED <<server, channels, activePage, pageSize, channelCount,
                   removed, lastThrew>>

\* manageChannel(id, 'delete') from the row's Popconfirm, followed by
\* .then(removeRecord(id)); both close over this render's channels.
DeleteChannel(c) ==
    /\ OnPage(c)
    /\ CanCall
    /\ Issue(Call("delete", c, 0, 0, 0, channels, "none"))
    /\ UNCHANGED <<server, ui, removed, lastThrew>>

\* manageChannel(id, 'enable' | 'disable' | 'priority') from the row.
\* (A blank priority returns before the call and changes nothing.)
ManageChannel(c, action) ==
    /\ OnPage(c)
    /\ action \in ManageActions
    /\ CanCall
    /\ Issue(Call(action, c, 0, 0, 0, channels, "none"))
    /\ UNCHANGED <<server, ui, removed, lastThrew>>

\* deleteAllDisabledChannels; on success it awaits this render's refresh.
DeleteAllDisabledChannels ==
    /\ CanCall
    /\ Issue(Call("deleteDisabled", 0, activePage - 1, pageSize, pageSize,
                  channels, "none"))
    /\ UNCHANGED <<server, ui, removed, lastThrew>>

(***************************************************************************)
(* A call completes: the server (the REST backend) performs its effect and *)
(* computes the answer, and the handler's continuation, the code after its *)
(* await, runs on that answer.  Calls complete in any order.  A transport  *)
(* error ("throw") may strike before or after the server acted; it        *)
(* rejects the await, so nothing after the await runs.                     *)
(***************************************************************************)
Effect(c) ==
    CASE c.op = "delete"         -> /\ db' = SelectSeq(db, LAMBDA x : x # c.id)
                                    /\ UNCHANGED enabled
      [] c.op = "enable"         -> /\ enabled' = [enabled EXCEPT ![c.id] = TRUE]
                                    /\ UNCHANGED db
      [] c.op = "disable"        -> /\ enabled' = [enabled EXCEPT ![c.id] = FALSE]
                                    /\ UNCHANGED db
      [] c.op = "deleteDisabled" -> /\ db' = SelectSeq(db, LAMBDA x : enabled[x])
                                    /\ UNCHANGED enabled
      [] OTHER                   -> UNCHANGED server

ServerHandles(c, out) ==
    \/ out = "ok" /\ Effect(c)
    \/ out = "fail" /\ UNCHANGED server
    \/ out = "throw" /\ (Effect(c) \/ UNCHANGED server)

\* Mutant: setLoading(false) inside the `if (success)` branch only.
LoadReturnsClearOnOk(c, out) ==
    /\ c.op = "load"
    /\ IF out = "ok"
          THEN LET rows == ServerPage(c.p, c.ps)
                   new == IF c.p = 0 THEN rows
                          ELSE Splice(c.snap, c.p * c.ps, Len(rows), rows)
               IN  /\ channels' = new
                   /\ channelCount' = FormatCount(new, c.fmtPs)
                   /\ loading' = FALSE
                   /\ activePage' = IF c.andThen = "page1" THEN 1 ELSE activePage
          ELSE UNCHANGED <<channels, channelCount, loading, activePage>>
    /\ pending' = BagRemove(pending, c)
    /\ lastThrew' = [lastThrew EXCEPT !["load"] = (out = "throw")]
    /\ UNCHANGED <<removed, pageSize, searching>>

\* loadChannels after the await (and, for a blank search, searchChannels'
\* setActivePage(1) after `await loadChannels`).
LoadReturns(c, out) ==
    /\ c.op = "load"
    /\ IF out = "ok"
          THEN LET rows == ServerPage(c.p, c.ps)
                   new == IF c.p = 0 THEN rows
                          ELSE Splice(c.snap, c.p * c.ps, Len(rows), rows)
               IN  /\ channels' = new
                   /\ channelCount' = FormatCount(new, c.fmtPs)
          ELSE UNCHANGED <<channels, channelCount>>
    /\ IF out = "throw"
          THEN UNCHANGED <<loading, activePage>>
          ELSE /\ loading' = FALSE
               /\ activePage' = IF c.andThen = "page1" THEN 1 ELSE activePage
    /\ pending' = BagRemove(pending, c)
    /\ lastThrew' = [lastThrew EXCEPT !["load"] = (out = "throw")]
    /\ UNCHANGED <<removed, pageSize, searching>>

\* searchChannels after the await.
SearchReturns(c, out) ==
    /\ c.op = "search"
    /\ IF out = "ok"
          THEN /\ channels' = ServerSearch
               /\ activePage' = 1
          ELSE UNCHANGED <<channels, activePage>>
    /\ searching' = IF out = "throw" THEN searching ELSE FALSE
    /\ pending' = BagRemove(pending, c)
    /\ lastThrew' = [lastThrew EXCEPT !["search"] = (out = "throw")]
    /\ UNCHANGED <<removed, pageSize, channelCount, loading>>

\* manageChannel(.., 'delete') after the await, then removeRecord(id): both
\* copy the closed-over channels.  manageChannel resolves on failure too,
\* so removeRecord runs unless the call threw.
DeleteReturns(c, out) ==
    /\ c.op = "delete"
    /\ IF out = "throw"
          THEN UNCHANGED <<channels, removed>>
          ELSE /\ channels' = RemoveFirst(c.snap, c.id)
               /\ removed' = IF out = "ok" THEN removed \cup {c.id} ELSE removed
    /\ pending' = BagRemove(pending, c)
    /\ UNCHANGED <<activePage, pageSize, channelCount, loading, searching, lastThrew>>

\* manageChannel(.., 'enable' | 'disable' | 'priority') after the await:
\* on success, setChannels([...channels]) of the closed-over render.
ManageReturns(c, out) ==
    /\ c.op \in {"enable", "disable", "priority"}
    /\ channels' = IF out = "ok" THEN c.snap ELSE channels
    /\ pending' = BagRemove(pending, c)
    /\ UNCHANGED <<removed, activePage, pageSize, channelCount, loading, searching,
                   lastThrew>>

\* deleteAllDisabledChannels after the await: on success, the closed-over
\* refresh(), i.e. loadChannels(activePage - 1, pageSize) of that render.
DeleteDisabledReturns(c, out) ==
    /\ c.op = "deleteDisabled"
    /\ IF out = "ok"
          THEN /\ pending' = BagAdd(BagRemove(pending, c),
                                    LoadCall(c.p, c.ps, c.fmtPs, c.snap, "none"))
               /\ loading' = TRUE
          ELSE /\ pending' = BagRemove(pending, c)
               /\ UNCHANGED loading
    /\ UNCHANGED <<removed, channels, activePage, pageSize, channelCount, searching,
                   lastThrew>>

Complete(c) ==
    /\ c \in BagToSet(pending)
    /\ \E out \in Outcomes :
          /\ ServerHandles(c, out)
          /\ \/ LoadReturns(c, out)
             \/ SearchReturns(c, out)
             \/ DeleteReturns(c, out)
             \/ ManageReturns(c, out)
             \/ DeleteDisabledReturns(c, out)

AdminStep ==
    \/ \E page \in 1..NumPages : HandlePageChange(page)
    \/ \E size \in PageSizes : HandlePageSizeChange(size)
    \/ Refresh
    \/ \E kw \in Keywords : SearchChannels(kw)
    \/ \E c \in Ids : DeleteChannel(c)
    \/ \E c \in Ids, action \in ManageActions : ManageChannel(c, action)
    \/ DeleteAllDisabledChannels

SystemStep == \E c \in BagToSet(pending) : Complete(c)

Next == AdminStep \/ SystemStep

\* The server answers every call and the browser runs every continuation;
\* the admin is never obliged to click.
Spec == Init /\ [][Next]_vars /\ WF_vars(SystemStep)

-----------------------------------------------------------------------------
(***************************************************************************)
(* Properties                                                              *)
(***************************************************************************)

Req == [op : {"load", "search", "delete", "enable", "disable", "priority",
              "deleteDisabled"},
        id : 0..N, p : Nat, ps : Nat, fmtPs : Nat, snap : Seq(Ids),
        andThen : {"none", "page1"}]

TypeOK ==
    /\ db \in Seq(Ids) /\ enabled \in [Ids -> BOOLEAN]
    /\ channels \in Seq(Ids)
    /\ activePage \in Nat \ {0} /\ pageSize \in PageSizes /\ channelCount \in Nat
    /\ loading \in BOOLEAN /\ searching \in BOOLEAN
    /\ IsABag(pending) /\ BagToSet(pending) \subseteq Req
    /\ removed \subseteq Ids
    /\ lastThrew \in [{"load", "search"} -> BOOLEAN]

\* The only way a spinner stays on with nothing outstanding is a rejected
\* call: if no call is outstanding and the table (search) spinner is on,
\* the last load (search) to finish threw, because loadChannels and
\* searchChannels turn the flag off on every answered path, whatever order
\* overlapping loads, failed calls and the chained refresh of
\* deleteAllDisabledChannels finish in.
StuckSpinnerOnlyAfterThrow ==
    InFlight = 0 => /\ loading => lastThrew["load"]
                    /\ searching => lastThrew["search"]

\* When no call is outstanding, the list the admin pages through is the
\* server's list up to some row: no row is missing, doubled, or kept after
\* the server deleted it.  (Spec section 8: deleting removes exactly the
\* matching row; paging past the cache fetches the next page.)
ListMirrorsServer ==
    InFlight = 0 => IsPrefix(channels, db)

\* A channel whose deletion the admin saw succeed never shows up in the
\* list again.
DeletedRowStaysGone ==
    \A c \in removed : ~Contains(channels, c)

\* When the list is a correct prefix of the server's list and shorter than
\* it, the pager offers the page that loads more (spec section 8).
PagerOffersNextPage ==
    (InFlight = 0 /\ IsPrefix(channels, db) /\ Len(channels) < Len(db))
        => Ceil(Len(channels), pageSize) + 1 <= NumPages

=============================================================================
