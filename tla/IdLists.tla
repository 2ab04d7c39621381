------------------------------- MODULE IdLists -------------------------------
(***************************************************************************)
(* Lists of ids, as the marketplace contract stores them: the pages of its *)
(* listing index and the open offers of a bot.                             *)
(***************************************************************************)
EXTENDS Naturals, Sequences

IdsOf(page) == {page[i] : i \in DOMAIN page}

IndexedIds(index) == UNION {IdsOf(index[n]) : n \in DOMAIN index}

(* A list of ids is rewritten by copying the ids that stay, in their order. *)
Without(ids, gone) ==
  LET kept[i \in 0 .. Len(ids)] ==
        IF i = 0 THEN << >>
        ELSE IF ids[i] \in gone THEN kept[i - 1]
        ELSE Append(kept[i - 1], ids[i])
  IN  kept[Len(ids)]

(* A page without the ids that are no longer live.                          *)
Compacted(page, live) == Without(page, IdsOf(page) \ live)

Ascending(s) == \A i, j \in DOMAIN s : i < j => s[i] < s[j]

=============================================================================
