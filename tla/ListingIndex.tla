----------------------------- MODULE ListingIndex -----------------------------
(***************************************************************************)
(* The paged listing-id index of the marketplace contract.  Page n holds   *)
(* at most PageSize ids in ascending order; cancelled listings stay in     *)
(* their page as tombstones until somebody compacts it.  An index is the   *)
(* sequence of its pages, so the contract's PageCount is its length.       *)
(***************************************************************************)
EXTENDS IdLists

CONSTANT PageSize  \* LISTING_PAGE_SIZE, 100 in the contract

ASSUME PageSizeAssumption == PageSize \in Nat \ {0}

(* A slip: a page is taken for full one id too late.                       *)
AppendPastFull(index, id) ==
  IF index = << >> \/ Len(index[Len(index)]) > PageSize
  THEN Append(index, <<id>>)
  ELSE [index EXCEPT ![Len(index)] = Append(@, id)]

(* The new id goes to the last page, or opens a page when that one is full. *)
AppendListingId(index, id) ==
  IF index = << >> \/ Len(index[Len(index)]) >= PageSize
  THEN Append(index, <<id>>)
  ELSE [index EXCEPT ![Len(index)] = Append(@, id)]

=============================================================================
