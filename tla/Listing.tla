------------------------------ MODULE Listing ------------------------------
(***************************************************************************)
(* The endpoints that read tables nothing is ever deleted from: lists page *)
(* by page, and one transaction with its entries.  A list is two SELECTs,  *)
(* the page and the total, and a detail is two as well, none of them in a  *)
(* database transaction: each sees what has committed when it runs.  Rows  *)
(* appear at the commit of the database transaction that writes them and   *)
(* are ordered by created_at, which is the start of that transaction.      *)
(***************************************************************************)
EXTENDS Integers, FiniteSets

CONSTANTS
    Writers,   \* database transactions that insert rows
    Job,       \* what a writer writes: its kind and the users concerned
    Users,
    Readers,   \* requests, or walks of a client through pages
    All,       \* no filter
    MaxLimit,  \* the greatest page size the binding admits
    Half32,    \* 2^31: an int32 holds -Half32..(Half32 - 1)
    Asked      \* the page and limit parameters clients send, 0 where absent

Types == {"TOPUP", "TRANSFER"}
Actions == {"VIEW_BALANCE", "LOGOUT"}
Kinds == Types \cup Actions \cup {"REGISTER"}

ASSUME ListingAssumption ==
    /\ IsFiniteSet(Writers) /\ All \notin Writers
    /\ Job \in [Writers -> [kind : Kinds, source : Users, target : Users]]
    /\ MaxLimit \in Nat /\ Half32 \in Nat /\ MaxLimit < Half32
    /\ Asked \subseteq Nat \X Nat

VARIABLES
    now,        \* the database's clock
    created,    \* start of a writer's transaction, 0 before it
    committed,  \* writers whose rows are visible
    pc,         \* the statement a reader is at
    query,      \* what it looks for
    page, limit,
    items,      \* the rows its last SELECT returned
    total,
    answer,
    seen,       \* history: rows the pages of a walk have shown
    repeated,   \* history: rows they have shown twice
    since       \* history: writers that had committed when a walk from page 1 began

vars == <<now, created, committed, pc, query, page, limit, items, total, answer,
          seen, repeated, since>>
db == <<now, created, committed>>
history == <<seen, repeated, since>>

-----------------------------------------------------------------------------
(* Rows and queries.  A wallet is named by its user.                         *)

Txn(w) == [table |-> "transactions", by |-> w, type |-> Job[w].kind, status |-> "COMPLETED",
           owners |-> IF Job[w].kind = "TRANSFER" THEN {Job[w].source, Job[w].target}
                                                  ELSE {Job[w].target}]
Entry(w, type) ==
    [table |-> "ledger_entries", by |-> w, type |-> type, status |-> "none",
     owners |-> {IF type = "DEBIT" THEN Job[w].source ELSE Job[w].target}]
AuditRow(w) == [table |-> "audit_logs", by |-> w, type |-> Job[w].kind, status |-> "none",
                owners |-> {Job[w].target}]
UserRow(w) == [table |-> "users", by |-> w, type |-> "none", status |-> "none",
               owners |-> {}]

Writes(w) ==
    CASE Job[w].kind = "TOPUP" -> {Txn(w), Entry(w, "CREDIT")}
      [] Job[w].kind = "TRANSFER" -> {Txn(w), Entry(w, "DEBIT"), Entry(w, "CREDIT")}
      [] Job[w].kind = "REGISTER" -> {UserRow(w)}
      [] Job[w].kind \in Actions -> {AuditRow(w)}

Query(table, owner, type, status, by) ==
    [table |-> table, owner |-> owner, type |-> type, status |-> status, by |-> by]

Meets(q, row) ==
    /\ row.table = q.table
    /\ q.owner \in {All} \cup row.owners
    /\ q.type \in {All, row.type}
    /\ q.status \in {All, row.status}
    /\ q.by \in {All, row.by}

Optional(S) == S \cup {All}

\* The WHERE clauses: lists of a user's wallet or of the user, and the unfiltered ones.
ByWalletID(u, type) == Query("transactions", u, type, All, All)
AllTransactions(type, status) == Query("transactions", All, type, status, All)
EntriesByWalletID(u, type) == Query("ledger_entries", u, type, All, All)
LogsByUserID(u) == Query("audit_logs", u, All, All, All)
AllLogs(u, action) == Query("audit_logs", u, action, All, All)
AllUsers == Query("users", All, All, All, All)
ById(w) == Query("transactions", All, All, All, w)
EntriesById(w) == Query("ledger_entries", All, All, All, w)

NoQuery == Query("none", All, All, All, All)

\* What a SELECT sees of a query when the writers W have committed.
RowsOf(W, q) == {row \in UNION {Writes(w) : w \in W} : Meets(q, row)}
Matching(q) == RowsOf(committed, q)

\* ORDER BY created_at DESC leaves open how rows of one instant are ordered.
Ranks(S) ==
    {rank \in [S -> 0..(Cardinality(S) - 1)] : \A x, y \in S :
        /\ x # y => rank[x] # rank[y]
        /\ created[x.by] > created[y.by] => rank[x] < rank[y]}

\* Go's int32(n), which keeps the low bits of an int and their sign.
Int32(n) == ((n + Half32) % (2 * Half32)) - Half32

\* The rows before the page asked for, and the OFFSET its SELECT gets.
Offset(r) == (page[r] - 1) * limit[r]
Skipped(r) == Int32(Offset(r))

\* Variant: pages are rounded down.
TotalPagesFloor(r) == total[r] \div limit[r]

TotalPages(r) == (total[r] + limit[r] - 1) \div limit[r]

-----------------------------------------------------------------------------
(* Writers.                                                                  *)

Init ==
    /\ now = 0
    /\ created = [w \in Writers |-> 0]
    /\ committed = {}
    /\ pc = [r \in Readers |-> "idle"]
    /\ query = [r \in Readers |-> NoQuery]
    /\ page = [r \in Readers |-> 1]
    /\ limit = [r \in Readers |-> 1]
    /\ items = [r \in Readers |-> {}]
    /\ total = [r \in Readers |-> 0]
    /\ answer = [r \in Readers |-> "none"]
    /\ seen = [r \in Readers |-> {}]
    /\ repeated = [r \in Readers |-> {}]
    /\ since = [r \in Readers |-> {}]

\* BEGIN fixes NOW(), which may be that of the transaction before.
Begin(w) ==
    /\ created[w] = 0
    /\ \E t \in {now, now + 1} \ {0} :
          now' = t /\ created' = [created EXCEPT ![w] = t]
    /\ UNCHANGED <<committed, pc, query, page, limit, items, total, answer, history>>

\* Variant: a writer's rows do not wait for its transaction.
CommitUnbegun(w) ==
    /\ w \notin committed
    /\ committed' = committed \cup {w}
    /\ UNCHANGED <<now, created, pc, query, page, limit, items, total, answer, history>>

Commit(w) ==
    /\ created[w] # 0 /\ w \notin committed
    /\ committed' = committed \cup {w}
    /\ UNCHANGED <<now, created, pc, query, page, limit, items, total, answer, history>>

-----------------------------------------------------------------------------
(* Readers.                                                                  *)

Finish(r, status) ==
    /\ pc' = [pc EXCEPT ![r] = "done"]
    /\ answer' = [answer EXCEPT ![r] = status]

\* min=1 of the binding refuses an absent parameter too, before SetDefaults runs.
Valid(asked) == asked[1] >= 1 /\ asked[2] \in 1..MaxLimit

SetDefaults(asked) ==
    <<IF asked[1] <= 0 THEN 1 ELSE asked[1], IF asked[2] <= 0 THEN 10 ELSE asked[2]>>

\* A handler binds page and limit and calls its service.
List(r, q, first) ==
    /\ pc[r] = "idle"
    /\ \E asked \in Asked :
          LET bound == IF Valid(asked) THEN SetDefaults(asked) ELSE asked IN
          /\ page' = [page EXCEPT ![r] = bound[1]]
          /\ limit' = [limit EXCEPT ![r] = bound[2]]
          /\ since' = [since EXCEPT ![r] = IF bound[1] = 1 THEN committed ELSE {}]
          /\ IF Valid(asked)
               THEN pc' = [pc EXCEPT ![r] = first] /\ UNCHANGED answer
               ELSE Finish(r, "badRequest")
    /\ query' = [query EXCEPT ![r] = q]
    /\ UNCHANGED <<db, items, total, seen, repeated>>

\* The services of lists.  Those of a wallet look it up first.
GetTransactions(r) ==
    \E u \in Users, type \in Optional(Types) : List(r, ByWalletID(u, type), "wallet")
GetAllTransactions(r) ==
    \E type \in Optional(Types), status \in Optional({"COMPLETED", "PENDING"}) :
        List(r, AllTransactions(type, status), "page")
GetLedgerEntries(r) ==
    \E u \in Users, type \in Optional({"DEBIT", "CREDIT"}) :
        List(r, EntriesByWalletID(u, type), "wallet")
GetLogs(r) == \E u \in Users : List(r, LogsByUserID(u), "page")
GetAllLogs(r) ==
    \E u \in Optional(Users), action \in Optional(Actions) : List(r, AllLogs(u, action), "page")
GetAllUsers(r) == List(r, AllUsers, "page")

\* walletRepo.FindByUserID of the caller, who has one: a user commits with its wallet.
FindWallet(r) ==
    /\ pc[r] = "wallet"
    /\ pc' = [pc EXCEPT ![r] = IF query[r].by = All THEN "page" ELSE "find"]
    /\ UNCHANGED <<db, query, page, limit, items, total, answer, history>>

\* PostgreSQL refuses a negative OFFSET: 500.
RefusePage(r) ==
    /\ pc[r] = "page" /\ Skipped(r) < 0
    /\ Finish(r, "error")
    /\ UNCHANGED <<db, query, page, limit, items, total, history>>

FindPage(r) ==
    /\ pc[r] = "page" /\ Skipped(r) >= 0
    /\ \E rank \in Ranks(Matching(query[r])) :
          LET shown == {row \in Matching(query[r]) :
                          rank[row] \in Skipped(r)..(Skipped(r) + limit[r] - 1)}
          IN  /\ items' = [items EXCEPT ![r] = shown]
              /\ seen' = [seen EXCEPT ![r] = @ \cup shown]
              /\ repeated' = [repeated EXCEPT ![r] = @ \cup (seen[r] \cap shown)]
    /\ pc' = [pc EXCEPT ![r] = "count"]
    /\ UNCHANGED <<db, query, page, limit, total, answer, since>>

\* Variant: the total is counted before the page is read.
CountFirst(r) ==
    /\ pc[r] = "count"
    /\ total' = [total EXCEPT ![r] = Cardinality(RowsOf(since[r], query[r]))]
    /\ Finish(r, "ok")
    /\ UNCHANGED <<db, query, page, limit, items, history>>

CountRows(r) ==
    /\ pc[r] = "count"
    /\ total' = [total EXCEPT ![r] = Cardinality(Matching(query[r]))]
    /\ Finish(r, "ok")
    /\ UNCHANGED <<db, query, page, limit, items, history>>

\* A client that walks through a list asks for the next page while there is one.
NextPage(r) ==
    /\ pc[r] = "done" /\ answer[r] = "ok"
    /\ query[r].by = All /\ page[r] < TotalPages(r)
    /\ page' = [page EXCEPT ![r] = @ + 1]
    /\ pc' = [pc EXCEPT ![r] = "page"]
    /\ answer' = [answer EXCEPT ![r] = "none"]
    /\ UNCHANGED <<db, query, limit, items, total, history>>

Detail(r, q, first) ==
    /\ pc[r] = "idle"
    /\ pc' = [pc EXCEPT ![r] = first]
    /\ query' = [query EXCEPT ![r] = q]
    /\ UNCHANGED <<db, page, limit, items, total, answer, history>>

GetTransactionDetail(r) ==
    \E u \in Users, w \in Writers :
        Detail(r, [ById(w) EXCEPT !.owner = u], "wallet")
GetTransactionDetailAdmin(r) == \E w \in Writers : Detail(r, ById(w), "find")

FindByID(r) ==
    /\ pc[r] = "find"
    /\ LET found == Matching(ById(query[r].by)) IN
       \/ /\ found = {}
          /\ Finish(r, "notFound")
       \/ /\ found # {}
          /\ IF \E txn \in found : query[r].owner \in {All} \cup txn.owners
               THEN pc' = [pc EXCEPT ![r] = "entries"] /\ UNCHANGED answer
               ELSE Finish(r, "forbidden")
    /\ UNCHANGED <<db, query, page, limit, items, total, history>>

\* Variant: a user gets the entries of its own wallet.
FindOwnEntries(r) ==
    /\ pc[r] = "entries"
    /\ items' = [items EXCEPT ![r] =
                   Matching([EntriesById(query[r].by) EXCEPT !.owner = query[r].owner])]
    /\ Finish(r, "ok")
    /\ UNCHANGED <<db, query, page, limit, total, history>>

FindEntries(r) ==
    /\ pc[r] = "entries"
    /\ items' = [items EXCEPT ![r] = Matching(EntriesById(query[r].by))]
    /\ Finish(r, "ok")
    /\ UNCHANGED <<db, query, page, limit, total, history>>

\* Any SELECT fails: 500.
ReadFails(r) ==
    /\ pc[r] \notin {"idle", "done"}
    /\ Finish(r, "error")
    /\ UNCHANGED <<db, query, page, limit, items, total, history>>

Next ==
    \/ \E w \in Writers : Begin(w) \/ Commit(w)
    \/ \E r \in Readers :
          \/ GetTransactions(r) \/ GetAllTransactions(r) \/ GetLedgerEntries(r)
          \/ GetLogs(r) \/ GetAllLogs(r) \/ GetAllUsers(r)
          \/ GetTransactionDetail(r) \/ GetTransactionDetailAdmin(r)
          \/ FindWallet(r) \/ FindPage(r) \/ RefusePage(r) \/ CountRows(r) \/ NextPage(r)
          \/ FindByID(r) \/ FindEntries(r) \/ ReadFails(r)

Spec == Init /\ [][Next]_vars

-----------------------------------------------------------------------------
(* Correctness.                                                              *)

\* Types; only writers that began commit, and a reader's items are rows that have.
TypeOK ==
    /\ now \in Nat
    /\ created \in [Writers -> 0..now]
    /\ committed \subseteq {w \in Writers : created[w] > 0}
    /\ pc \in [Readers -> {"idle", "wallet", "page", "count", "find", "entries", "done"}]
    /\ page \in [Readers -> Nat] /\ limit \in [Readers -> Nat] /\ total \in [Readers -> Nat]
    /\ answer \in [Readers -> {"none", "ok", "badRequest", "notFound", "forbidden", "error"}]
    /\ \A r \in Readers :
          /\ items[r] \subseteq UNION {Writes(w) : w \in committed}
          /\ repeated[r] \subseteq seen[r] /\ seen[r] \subseteq Matching(query[r])
          /\ since[r] \subseteq committed

ListAnswered(r) == answer[r] = "ok" /\ query[r].by = All
EndOfWalk(r) == ListAnswered(r) /\ page[r] >= TotalPages(r)

\* No row of the query shares the row's created_at.
Untied(q, row) ==
    \A other \in Matching(q) \ {row} : created[other.by] # created[row.by]

\* A client that walks from the first page to the last has seen every row that had
\* committed when it began, however many commit on the way and wherever created_at puts
\* them: rows only move towards later pages, and the total is counted after its page.
\* Rows of one created_at are excepted, which ORDER BY may swap between two pages.
NothingSkipped ==
    \A r \in Readers : EndOfWalk(r) =>
        \A row \in RowsOf(since[r], query[r]) : Untied(query[r], row) => row \in seen[r]

\* A page whose offset is an int32 never shows rows beyond its own total, although the two
\* are read apart.  A greater offset wraps around: such a page is refused, or shows rows of
\* another page as its own (transaction_repository.go:109).
TotalCoversPage ==
    \A r \in Readers : ListAnswered(r) /\ items[r] # {} /\ Offset(r) < Half32 =>
        Offset(r) + Cardinality(items[r]) <= total[r]

\* A walk shows a row twice only if others have committed since it began.
QuietWalkRepeatsNothing ==
    \A r \in Readers : RowsOf(since[r], query[r]) = Matching(query[r]) =>
        \A row \in repeated[r] : ~Untied(query[r], row)

\* Untied rows are shown to a walk: all that were there, and once unless others commit.
WalksAreComplete == NothingSkipped /\ QuietWalkRepeatsNothing

\* A detail that is answered has every entry of its transaction, although transaction
\* and entries are read apart while calls commit (README.md:41).
DetailComplete ==
    \A r \in Readers : answer[r] = "ok" /\ query[r].by # All =>
        items[r] = {row \in Writes(query[r].by) : row.table = "ledger_entries"}
=============================================================================
