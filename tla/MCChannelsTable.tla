--------------------------- MODULE MCChannelsTable ---------------------------
(* Model-checking instance of ChannelsTable: the constants each .cfg picks. *)
EXTENDS ChannelsTable

\* Page sizes: 1 stands for ITEMS_PER_PAGE (10, the smallest pageSizeOpts
\* entry) and 2 for the next option (20).
MCPageSizes == {1, 2}
MCKeywords == {"", "k"}
MCKeywordsBlank == {""}
MCOutcomesAnswered == {"ok", "fail"}
MCOutcomesAll == {"ok", "fail", "throw"}
MCOutcomesOk == {"ok"}
=============================================================================
