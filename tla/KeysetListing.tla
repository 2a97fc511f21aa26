--------------------------- MODULE KeysetListing ---------------------------
(***************************************************************************)
(* Keyset paging (src/tamga/client.py): ArtifactsClient.list, and the lists *)
(* of components and processes, which page alike, followed to the end by    *)
(* feeding next_after back as "after", while rows come and go.              *)
(*                                                                         *)
(* The server sends no page metadata.  The client infers from the length of *)
(* a page whether there is another one, so the limit it compares with must  *)
(* be the one the server applied.  A row is its place in the order          *)
(* (created_at, id) of the listing; places are not used again.             *)
(***************************************************************************)
EXTENDS Integers, FiniteSets

CONSTANTS
  Key,         \* places of rows in the server's order; 0 is before them all
  MaxPage,     \* MAX_PAGE_SIZE, the server's maximum too
  Limits,      \* the limits callers ask for, Omitted among them
  Omitted,     \* limit=None
  LostCursor   \* what a server may do when the row of the cursor is gone:
               \* "past" (seek past its place) or "empty"; or an error

ASSUME ListingAssumption ==
  /\ Key \subseteq Nat \ {0} /\ IsFiniteSet(Key)
  /\ MaxPage \in Nat \ {0}
  /\ Omitted \notin Int
  /\ Limits \subseteq Int \cup {Omitted}
  /\ LostCursor \subseteq {"past", "empty"}

VARIABLES
  rows,     \* the rows the server has
  used,     \* the places that were ever taken
  there,    \* history: rows there since the listing began
  status,   \* "idle", "open", "complete", "failed"
  cursor,   \* the "after" of the next call, 0 for None
  page,     \* the rows on the page read last
  seen,     \* the rows read so far
  ending    \* history: "none" yet, or what ended the listing: a "short" page,
            \* nothing past a "lost" cursor, a page "clamped" by the server

listVars == <<rows, used, there, status, cursor, page, seen, ending>>

ListTypeOK ==
  /\ rows \subseteq used /\ used \subseteq Key
  /\ there \subseteq rows
  /\ status \in {"idle", "open", "complete", "failed"}
  /\ cursor \in Key \cup {0}
  /\ page \subseteq seen /\ seen \subseteq used
  /\ ending \in {"none", "short", "lost", "clamped"}

ListInit ==
  /\ used \in SUBSET Key /\ rows = used
  /\ there = {} /\ page = {} /\ seen = {}
  /\ status = "idle" /\ cursor = 0 /\ ending = "none"

-----------------------------------------------------------------------------
(* The server. *)

(* limit is clamped to 1..MaxPage. *)
Applied(limit) == IF limit < 1 THEN 1 ELSE IF limit > MaxPage THEN MaxPage ELSE limit

(* ORDER BY ... LIMIT n: the first n rows of R, or all of them. *)
IsPage(P, R, n) ==
  /\ P \subseteq R
  /\ \A k \in P, m \in R \ P : k < m
  /\ Cardinality(P) <= n
  /\ P # R => Cardinality(P) = n

Beyond == {k \in rows : k > cursor}

CursorLost == cursor # 0 /\ cursor \notin rows

-----------------------------------------------------------------------------
(* The client. *)

(* effective_limit = limit if limit is not None else MAX_PAGE_SIZE *)
Effective(limit) == IF limit = Omitted THEN MaxPage ELSE limit

Clamped(limit) == Effective(limit) > MaxPage

(* Mutated: an omitted limit is nothing to compare with, and every page the  *)
(* last one.                                                                *)
LastPageUnknown(P, limit) ==
  P = {} \/ limit = Omitted \/ Cardinality(P) < Effective(limit)

(* _next_after_cursor returns None. *)
LastPage(P, limit) == P = {} \/ Cardinality(P) < Effective(limit)

(* Mutated: the cursor is the first row of the page. *)
FirstOf(P) == {k \in P : \A m \in P : k <= m}

(* Mutated: "after" is not sent along, and every page is the first. *)
CursorKept(P) == {cursor}

(* items[-1] *)
LastOf(P) == {k \in P : \A m \in P : m <= k}

(* Mutated: a listing that failed goes on where it stopped. *)
ListResumed ==
  /\ status # "open"
  /\ status' = "open" /\ there' = rows
  /\ page' = {} /\ seen' = {} /\ ending' = "none"
  /\ UNCHANGED <<rows, used, cursor>>

(* The caller lists from the start. *)
ListBegin ==
  /\ status # "open"
  /\ status' = "open" /\ there' = rows
  /\ cursor' = 0 /\ page' = {} /\ seen' = {} /\ ending' = "none"
  /\ UNCHANGED <<rows, used>>

(* One call of list and its answer. *)
ListPage(limit) ==
  /\ status = "open"
  /\ CursorLost => "past" \in LostCursor
  /\ \E P \in SUBSET Beyond :
       /\ IsPage(P, Beyond, Applied(Effective(limit)))
       /\ page' = P /\ seen' = seen \cup P
       /\ \/ /\ LastPage(P, limit)
             /\ status' = "complete"
             /\ ending' = IF Clamped(limit) THEN "clamped" ELSE "short"
             /\ UNCHANGED cursor
          \/ /\ ~LastPage(P, limit)
             /\ cursor' \in LastOf(P)
             /\ UNCHANGED <<status, ending>>
  /\ UNCHANGED <<rows, used, there>>

(* A server that looks up the cursor's row finds nothing past it. *)
ListNothing ==
  /\ status = "open"
  /\ CursorLost /\ "empty" \in LostCursor
  /\ status' = "complete" /\ ending' = "lost"
  /\ UNCHANGED <<rows, used, there, cursor, page, seen>>

(* Any error of list, a refused cursor too, leaves the loop of the caller. *)
ListFails ==
  /\ status = "open"
  /\ status' = "failed"
  /\ UNCHANGED <<rows, used, there, cursor, page, seen, ending>>

(* The caller is done with the pages. *)
ListDropped ==
  /\ status # "open"
  /\ status' = "idle" /\ there' = {}
  /\ cursor' = 0 /\ page' = {} /\ seen' = {} /\ ending' = "none"
  /\ UNCHANGED <<rows, used>>

-----------------------------------------------------------------------------
(* Everybody else.  A row committed late may come before rows that are there. *)

Insert(k) ==
  /\ k \in Key \ used
  /\ rows' = rows \cup {k} /\ used' = used \cup {k}
  /\ UNCHANGED <<there, status, cursor, page, seen, ending>>

Delete(k) ==
  /\ k \in rows
  /\ rows' = rows \ {k} /\ there' = there \ {k}
  /\ UNCHANGED <<used, status, cursor, page, seen, ending>>

ListNext ==
  \/ ListBegin \/ ListNothing \/ ListFails \/ ListDropped
  \/ \E limit \in Limits : ListPage(limit)
  \/ \E k \in Key : Insert(k) \/ Delete(k)

ListSpec == ListInit /\ [][ListNext]_listVars

-----------------------------------------------------------------------------
(* Properties. *)

(* next_after=None means that there is no more: a listing followed to its end *)
(* has read every row that was there from its first request to its last,      *)
(* unless the row of a cursor was deleted or a limit was above the maximum    *)
(* (client.py, _next_after_cursor).                                          *)
CompleteListing ==
  status = "complete" /\ ending = "short" => there \subseteq seen

(* The inductive strengthening: what is there up to the cursor was read, and  *)
(* nothing behind it was.                                                    *)
ListingInv ==
  /\ ListTypeOK
  /\ cursor # 0 => cursor \in seen
  /\ status = "open" =>
       /\ ending = "none"
       /\ \A k \in there : k <= cursor => k \in seen
       /\ \A k \in seen : k <= cursor
  /\ CompleteListing

(* The pages implement the promise. *)
Promise == INSTANCE Listing WITH
  Greedy <- \E limit \in Limits : Clamped(limit),
  status <- IF ending \in {"lost", "clamped"} THEN "cut" ELSE status

(* Page by page, no row is read twice, and what looks complete is, but for    *)
(* the two cases above (ArtifactsClient.list: "can page this to completion"). *)
ImplementsListing == Promise!Spec
=============================================================================
