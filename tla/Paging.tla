------------------------------- MODULE Paging -------------------------------
(***************************************************************************)
(* A client reads one list page by page, to its end, while the rows of the *)
(* list come, go and move: the feed, a conversation's messages, the inbox, *)
(* a post's comments, the users (sorted by created_at DESC, the default).  *)
(*                                                                         *)
(* A row's date is drawn before it becomes visible, so rows may become     *)
(* visible in any order.  Dates the application makes are whole            *)
(* milliseconds, those the database makes are not; a cursor is always cut  *)
(* to the millisecond.  Filters, and cursors a client makes up, are left   *)
(* out.                                                                    *)
(***************************************************************************)
EXTENDS Naturals, FiniteSets

CONSTANTS
  None,
  limit,    \* rows of a page
  MaxRows,  \* bound on rows
  PerMs,    \* ticks of the database's clock in a millisecond
  MaxDate   \* bound on dates, in ticks

VARIABLES
  list,    \* the list that is read
  date,    \* the date each row has once it is there
  visible, \* rows a query would find
  gone,    \* rows that were deleted
  reader,  \* where the client is
  \* History, read by properties only.
  seen,    \* how often the client was shown each row, at most twice
  kept,    \* rows visible in one place since the client began
  moved,   \* rows that changed places
  torn     \* a row went between the two statements of a feed page

historyVars == <<seen, kept, moved, torn>>
pagingVars == <<list, date, visible, gone, reader, historyVars>>

Lists == {"feed", "messages", "inbox", "comments", "users"}
Ids == 1..MaxRows
Dates == 0..MaxDate
ToMs(t) == t - (t % PerMs)

(* publishedAt and lastMessageAt are JavaScript dates; messages are sorted *)
(* by id alone.                                                            *)
DatesOf(l) ==
  CASE l \in {"feed", "inbox"} -> {ToMs(t) : t \in Dates}
    [] l = "messages" -> {0}
    [] OTHER -> Dates

(* reader.rows are the ids the first statement of a feed page has found.   *)
Cursors == [date : Dates, id : Ids]

PagingAssumption ==
  /\ limit \in Nat \ {0} /\ PerMs \in Nat \ {0}
  /\ MaxRows \in Nat /\ MaxDate \in Nat /\ None \notin Cursors

TypeOK ==
  /\ list \in Lists
  /\ date \in [Ids -> DatesOf(list)]
  /\ visible \subseteq Ids /\ gone \subseteq Ids \ visible
  /\ reader \in [pc : {"request", "load", "count", "done"}, cursor : {None} \cup Cursors,
                 page : 1..MaxRows + 1, rows : SUBSET Ids]
  /\ Cardinality(reader.rows) <= limit + 1
  /\ seen \in [Ids -> 0..2]
  /\ kept \subseteq visible /\ moved \subseteq Ids /\ torn \in BOOLEAN

Init ==
  /\ list \in Lists
  /\ date \in [Ids -> DatesOf(list)]
  /\ visible \in SUBSET Ids
  /\ gone = {}
  /\ reader = [pc |-> "request", cursor |-> None, page |-> 1, rows |-> {}]
  /\ seen = [i \in Ids |-> 0]
  /\ kept = visible /\ moved = {} /\ torn = FALSE

-----------------------------------------------------------------------------
(* ORDER BY: messages by id, the others newest first, ties by id. *)
Precedes(i, j) ==
  IF list = "messages"
  THEN i < j
  ELSE date[i] > date[j] \/ (date[i] = date[j] /\ i > j)

(* The keyset condition of the WHERE clause. *)
After(i, cursor) ==
  IF list = "messages"
  THEN i > cursor.id
  ELSE date[i] < cursor.date \/ (date[i] = cursor.date /\ i < cursor.id)

Rank(i, S) == Cardinality({j \in S : Precedes(j, i)})

(* LIMIT n: the first rows of S, a set in place of a sorted array. *)
First(n, S) == {i \in S : Rank(i, S) < n}

(* What one query finds.  Comments have pages by number; a page of users   *)
(* that follows a cursor has no row to look ahead.                         *)
Fetched ==
  IF list = "comments"
  THEN First(reader.page * limit, visible) \ First((reader.page - 1) * limit, visible)
  ELSE First(IF list = "users" /\ reader.cursor # None THEN limit ELSE limit + 1,
             {i \in visible : reader.cursor # None => After(i, reader.cursor)})

Shown(page) == seen' = [i \in Ids |-> IF seen[i] < 2 /\ i \in page THEN seen[i] + 1 ELSE seen[i]]

\* Mutant: the cursor is that of the row looked ahead, before it is dropped.
EndsPage_Lookahead(i, rows) == \A j \in rows : ~Precedes(i, j)

EndsPage(i, rows) == i \in First(limit, rows) /\ \A j \in First(limit, rows) : ~Precedes(i, j)

(* The page of a keyset query and the request for the next *)
Answer(rows) ==
  /\ Shown(First(limit, rows))
  /\ \/ /\ Cardinality(rows) > limit
        /\ \E i \in rows :
             /\ EndsPage(i, rows)
             /\ reader' = [reader EXCEPT !.pc = "request", !.rows = {},
                                        !.cursor = [date |-> ToMs(date[i]), id |-> i]]
     \/ /\ Cardinality(rows) <= limit
        /\ reader' = [reader EXCEPT !.pc = "done", !.rows = {}]

listUnchanged == UNCHANGED <<list, date, visible, gone, kept, moved, torn>>

(* getUsers, listMessages, listInbox *)
ReadPage ==
  /\ list \in {"users", "messages", "inbox"} /\ reader.pc = "request"
  /\ Answer(Fetched)
  /\ listUnchanged

(* getSubscriptionFeed: take with a join is two statements, one for the    *)
(* ids of the page and one for its rows.                                   *)
SelectIds ==
  /\ list = "feed" /\ reader.pc = "request"
  /\ reader' = [reader EXCEPT !.pc = "load", !.rows = Fetched]
  /\ UNCHANGED seen /\ listUnchanged

LoadRows ==
  /\ reader.pc = "load"
  /\ Answer(reader.rows \cap visible)
  /\ listUnchanged

(* listComments: getManyAndCount reads a page, then counts. *)
ReadComments ==
  /\ list = "comments" /\ reader.pc = "request"
  /\ Shown(Fetched)
  /\ reader' = [reader EXCEPT !.pc = "count"]
  /\ listUnchanged

CountComments ==
  /\ reader.pc = "count"
  /\ reader' = IF reader.page * limit < Cardinality(visible)
               THEN [reader EXCEPT !.pc = "request", !.page = @ + 1]
               ELSE [reader EXCEPT !.pc = "done"]
  /\ UNCHANGED seen /\ listUnchanged

-----------------------------------------------------------------------------
(* What others do to the list meanwhile *)

(* A row's transaction commits, or a fan subscribes again. *)
Appear(i) ==
  /\ i \in Ids \ (visible \cup gone)
  /\ visible' = visible \cup {i}
  /\ UNCHANGED <<list, date, gone, reader, historyVars>>

Hide(i) ==
  /\ i \in visible
  /\ visible' = visible \ {i}
  /\ kept' = kept \ {i}
  /\ torn' = (torn \/ (reader.pc = "load" /\ i \in reader.rows))
  /\ UNCHANGED <<list, date, reader, seen, moved>>

(* deletePost, deleteUser; comments are kept as tombstones. *)
Delete(i) ==
  /\ list \in {"feed", "users"}
  /\ Hide(i)
  /\ gone' = gone \cup {i}

(* The fan cancels a subscription. *)
Unsubscribe(i) ==
  /\ list = "feed"
  /\ Hide(i)
  /\ UNCHANGED gone

(* sendMessage saves the conversation's lastMessageAt; two sends may save  *)
(* theirs in either order.                                                 *)
Touch(i) ==
  /\ list = "inbox" /\ i \in visible
  /\ \E t \in DatesOf(list) \ {date[i]} : date' = [date EXCEPT ![i] = t]
  /\ kept' = kept \ {i}
  /\ moved' = moved \cup {i}
  /\ UNCHANGED <<list, visible, gone, reader, seen, torn>>

Next ==
  \/ ReadPage \/ SelectIds \/ LoadRows \/ ReadComments \/ CountComments
  \/ \E i \in Ids : Appear(i) \/ Delete(i) \/ Unsubscribe(i) \/ Touch(i)

-----------------------------------------------------------------------------
(***************************************************************************)
(* Properties                                                              *)
(***************************************************************************)

(* A client that has read a list to its end has seen every row that was    *)
(* there all along, whatever came, went and moved meanwhile; the users     *)
(* excepted, and a feed that lost a row between the two statements of a    *)
(* page.  And a list with cursors shows no row twice, but a conversation   *)
(* whose last message changed; comments, whose pages are numbered, may     *)
(* come twice.                                                             *)
PagesExact ==
  /\ reader.pc = "done" /\ list # "users" /\ ~torn => \A i \in kept : seen[i] > 0
  /\ list # "comments" => \A i \in Ids \ moved : seen[i] <= 1

(* docs/migration-pagination.md: users are not missing from the pages when *)
(* others come and go.                                                     *)
UsersComplete ==
  reader.pc = "done" /\ list = "users" => \A i \in kept : seen[i] > 0
=============================================================================
