------------------------------ MODULE JobPages ------------------------------
(***************************************************************************)
(* The list of jobs, page by page (list_jobs in routers/jobs.py).  Every   *)
(* page is a query of its own; rows that tie in all its sort keys come in  *)
(* any order, which may differ from one query to the next.                 *)
(***************************************************************************)
EXTENDS Inputs, FiniteSetsExt, SequencesExt

CONSTANTS
    ListedRows,     \* rows: [effective, value, discovered]
    PageSizes,
    MaxListed       \* bound: rows in the list

Null == 0           \* columns that may be empty are so when they are 0
Behind == 1000        \* its rank: nulls come last either way

ASSUME PagesAssumption ==
    /\ ListedRows \subseteq [effective : 0..(Behind - 1), value : 0..(Behind - 1),
                             discovered : 0..(Behind - 1)]
    /\ PageSizes \subseteq Nat \ {0}
    /\ MaxListed \in Nat

Rank(column, dir) ==
    IF column = Null THEN Behind
    ELSE IF dir = "asc" THEN column ELSE Behind - column

(* The columns to sort by, most significant first; value is the fit or     *)
(* trust score, the highest salary, the company or the title.  Only scores *)
(* and salaries heed the direction that is asked for.                      *)
SortKeys(row, by, dir) ==
    LET newest == Rank(row.effective, "desc")
        found == Rank(row.discovered, "desc")
    IN CASE by = "newest" -> <<newest, Rank(row.value, "desc"), found>>
         [] by \in {"fit", "trust", "salary"} ->
              <<Rank(row.value, dir), newest, found>>
         [] by \in {"company", "title"} -> <<Rank(row.value, "asc"), newest>>

Precedes(keys, others) ==
    \E i \in DOMAIN keys :
      /\ keys[i] < others[i]
      /\ \A j \in 1..i - 1 : keys[j] = others[j]

(* What the database may answer: rows, by their place in the table.        *)
Ordered(rows, by, dir) ==
    {s \in [DOMAIN rows -> DOMAIN rows] :
       /\ IsInjective(s)
       /\ \A i, j \in DOMAIN s :
            i < j => ~Precedes(SortKeys(rows[s[j]], by, dir),
                               SortKeys(rows[s[i]], by, dir))}

(* OFFSET and LIMIT                                                        *)
Page(s, page, size) == SubSeq(s, (page - 1) * size + 1, Min({page * size, Len(s)}))

(* Mutant: the last page counts only if it is full.                        *)
FullPages(total, size) == Max({1, total \div size})

PageCount(total, size) == Max({1, (total + size - 1) \div size})
-----------------------------------------------------------------------------
AskPages ==
    \E n \in 0..MaxListed : \E rows \in [1..n -> ListedRows], size \in PageSizes,
       by \in {"newest", "fit", "title"}, dir \in {"asc", "desc"} :
      Given("pages", [rows |-> rows, size |-> size, by |-> by, dir |-> dir])

PagesSpec == input = NoInput /\ [][AskPages]_input

(* A job that ties with no other one stands on exactly one of the pages    *)
(* that the list announces, whatever order each of them is fetched in, with *)
(* jobs that precede it on the pages before and the others after           *)
(* (jobs.py:143-204).                                                      *)
PagesCoverTheList ==
    Is("pages") =>
      LET rows == Asked.rows
          Keys(i) == SortKeys(rows[i], Asked.by, Asked.dir)
          Pages == 1..PageCount(Len(rows), Asked.size)
          Shown(fetched, page) == Range(Page(fetched[page], page, Asked.size))
          Unique == {i \in DOMAIN rows :
                       \A j \in DOMAIN rows \ {i} : Keys(i) # Keys(j)}
      IN \A fetched \in [Pages -> Ordered(rows, Asked.by, Asked.dir)] :
           \A i \in Unique : \E page \in Pages :
             /\ i \in Shown(fetched, page)
             /\ \A p \in Pages \ {page} :
                  /\ i \notin Shown(fetched, p)
                  /\ \A j \in Shown(fetched, p) :
                       IF p < page THEN Precedes(Keys(j), Keys(i))
                                   ELSE Precedes(Keys(i), Keys(j))
=============================================================================
