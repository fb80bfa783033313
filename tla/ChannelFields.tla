---------------------------- MODULE ChannelFields ----------------------------
(***************************************************************************)
(* The conversions of a channel's list fields (pages/Channel/EditChannel.js) *)
(* between the server's comma-separated strings and the edit form's       *)
(* arrays: loadChannel turns `models` and `group` into arrays with         *)
(* split(','), except that '' becomes [] rather than split's [''], and     *)
(* submit joins them back with join(',').                                  *)
(*                                                                         *)
(* A string is a sequence of characters: a few letters and the comma.     *)
(* EditChannel uses these operators on the channels it loads and saves.   *)
(***************************************************************************)
EXTENDS Integers, SequencesExt

CONSTANTS
    Letters,   \* characters a model or group name is made of
    Comma      \* the separator ','

ASSUME Comma \notin Letters

\* String.prototype.split(','): the text before the first comma, then the
\* split of the rest; a string with no comma is one piece, '' included.
RECURSIVE Split(_)
Split(s) ==
    LET i == SelectInSeq(s, LAMBDA ch : ch = Comma)
    IN  IF i = 0 THEN <<s>>
        ELSE <<SubSeq(s, 1, i - 1)>> \o Split(SubSeq(s, i + 1, Len(s)))

\* Array.prototype.join(','): [] joins to ''.
Join(l) ==
    IF l = <<>> THEN <<>>
    ELSE FoldLeft(LAMBDA acc, x : acc \o <<Comma>> \o x, Head(l), Tail(l))

\* Mutant: the '' special case dropped, data.models = data.models.split(',').
ParseListNoEmptyCase(s) == Split(s)

\* loadChannel: data.models === '' ? [] : data.models.split(','), and the
\* same for data.group into data.groups.
ParseList(s) == IF s = <<>> THEN <<>> ELSE Split(s)

\* submit: localInputs.models = models.join(','), group = groups.join(',').
SubmitList(l) == Join(l)

=============================================================================
