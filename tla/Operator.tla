------------------------------- MODULE Operator -------------------------------
(***************************************************************************)
(* An operator (db/Operator.cpp) above a SeqScan.                          *)
(*                                                                         *)
(* Operator looks one tuple ahead: hasNext() fetches a tuple and keeps it  *)
(* for next().  Its subclasses give it open(), close() and fetchNext(); in *)
(* this repository their bodies are still empty, so the one used here is   *)
(* the plainest: it passes on the tuples of its child, opens the child     *)
(* before itself and closes it before itself.                              *)
(***************************************************************************)
EXTENDS SeqScan

VARIABLES
    tup,      \* Operator::tup: the row fetched ahead, or Null
    isOpen,   \* Operator::isOpen
    result,   \* what the last call returned: "true", "false", "row", "threw"
    out,      \* history: the rows returned since the last open()
    due       \* history: the rows there since the last open()

vars == <<used, numPages, itopt, status, tup, isOpen, result, out, due>>

tableRows == { r \in Rows : r[2] \in used[r[1]] }

Init ==
    /\ TableInit
    /\ tup = Null
    /\ isOpen = FALSE
    /\ result = "false"
    /\ out = <<>>
    /\ due = {}

-------------------------------------------------------------------------------
(* Operator's calls.                                                       *)

threw ==
    /\ result' = "threw"
    /\ UNCHANGED <<used, numPages, itopt, status, tup, out, due>>

(* open() of a closed operator: SeqScan::open, then Operator::open.  That  *)
(* an operator is not opened twice is up to its client: the row fetched    *)
(* ahead would survive.                                                    *)
Open ==
    /\ ~ isOpen
    /\ itopt' \in begin
    /\ isOpen' = TRUE
    /\ result' = "true"
    /\ out' = <<>>
    /\ due' = tableRows
    /\ UNCHANGED <<used, numPages, status, tup>>

(* Bug variant: the row fetched ahead survives close(). *)
CloseKeepsTuple ==
    /\ itopt' = close
    /\ isOpen' = FALSE
    /\ result' = "true"
    /\ UNCHANGED <<used, numPages, status, tup, out, due>>

(* Bug variant: the child stays open. *)
CloseKeepsChild ==
    /\ tup' = Null
    /\ isOpen' = FALSE
    /\ result' = "true"
    /\ UNCHANGED <<used, numPages, status, itopt, out, due>>

Close ==
    /\ itopt' = close
    /\ tup' = Null
    /\ isOpen' = FALSE
    /\ result' = "true"
    /\ UNCHANGED <<used, numPages, status, out, due>>

(* close() and then open(), whatever state the operator is in. *)
Rewind ==
    /\ itopt' \in begin
    /\ tup' = Null
    /\ isOpen' = TRUE
    /\ result' = "true"
    /\ out' = <<>>
    /\ due' = tableRows
    /\ UNCHANGED <<used, numPages, status>>

(* fetchNext: the child's next() if it hasNext(), and then K, or no tuple, *)
(* and then N.  A closed SeqScan throws in itopt.value().                  *)
fetchNext(K, N) ==
    \/ /\ itopt = Null
       /\ threw
    \/ /\ itopt # Null /\ ~ hasNext(itopt)
       /\ UNCHANGED <<itopt, status>>
       /\ N
    \/ /\ itopt # Null /\ hasNext(itopt) /\ dereferenceable(itopt)
       /\ itopt' = operatorPlusPlus(itopt)
       /\ UNCHANGED status
       /\ K
    \/ /\ itopt # Null /\ hasNext(itopt) /\ ~ dereferenceable(itopt)
       /\ status' = "undefined"
       /\ UNCHANGED <<used, numPages, itopt, tup, result, out, due>>

lookAhead(r) ==
    /\ tup' = r
    /\ result' = "true"
    /\ UNCHANGED <<used, numPages, out, due>>

nothingLeft(answer) ==
    /\ result' = answer
    /\ UNCHANGED <<used, numPages, tup, out, due>>

(* Bug variant: a row is fetched although there is one. *)
HasNextAlways ==
    /\ IF ~ isOpen THEN threw ELSE fetchNext(lookAhead(current(itopt)), nothingLeft("false"))
    /\ UNCHANGED isOpen

HasNext ==
    /\ \/ ~ isOpen /\ threw
       \/ /\ isOpen /\ tup # Null
          /\ result' = "true"
          /\ UNCHANGED <<used, numPages, itopt, status, tup, out, due>>
       \/ isOpen /\ tup = Null /\ fetchNext(lookAhead(current(itopt)), nothingLeft("false"))
    /\ UNCHANGED isOpen

deliver(r) ==
    /\ result' = "row"
    /\ out' = Append(out, r)
    /\ tup' = Null
    /\ UNCHANGED <<used, numPages, due>>

(* Operator::next does not look at isOpen. *)
OperatorNext ==
    /\ \/ tup # Null /\ deliver(tup) /\ UNCHANGED <<itopt, status>>
       \/ tup = Null /\ fetchNext(deliver(current(itopt)), nothingLeft("threw"))
    /\ UNCHANGED isOpen

-------------------------------------------------------------------------------

operatorUnchanged == UNCHANGED <<tup, isOpen, result, out>>

Change ==
    \/ InsertTuple /\ operatorUnchanged /\ UNCHANGED due
    \/ \E r \in Rows : DeleteTuple(r) /\ operatorUnchanged /\ due' = due \ {r}
    \/ DropPage /\ operatorUnchanged /\ UNCHANGED due
    \/ Reset /\ operatorUnchanged /\ UNCHANGED due

Call == Open \/ HasNext \/ OperatorNext \/ Rewind \/ Close

Next == status = "running" /\ (Call \/ Change)

Spec == Init /\ [][Next]_vars

-------------------------------------------------------------------------------
(* Properties.                                                             *)

(* The variables have their types. *)
TypeOK ==
    /\ used \in [PageNo -> SUBSET Slot]
    /\ numPages \in 0 .. MaxPages
    /\ itopt \in Iterator \cup {Null}
    /\ status \in {"running", "undefined"}
    /\ tup \in Rows \cup {Null}
    /\ isOpen \in BOOLEAN
    /\ result \in {"true", "false", "row", "threw"}
    /\ out \in Seq(Rows)
    /\ due \subseteq Rows

before(r, s) == r[1] < s[1] \/ (r[1] = s[1] /\ r[2] < s[2])

(* However hasNext() and next() are mixed, and whatever is inserted,       *)
(* deleted and evicted in between, a row comes out once and in the order   *)
(* of the file.                                                            *)
RowsComeOnceInOrder ==
    \A i, j \in DOMAIN out : i < j => before(out[i], out[j])

(* An open operator that says it has no more tuples has returned every row *)
(* that was there when it was opened and still is.                         *)
NoRowIsMissed ==
    isOpen /\ result = "false" => due \subseteq { out[i] : i \in DOMAIN out }

(* Nothing comes out of an operator that was closed, although next() does  *)
(* not look at isOpen: the child's itopt is empty too.                     *)
NothingAfterClose == [][ ~ isOpen => result' # "row" ]_vars

(* A client that asks hasNext() first meets undefined behaviour only in    *)
(* three cases: the file had no pages when the scan began, it got pages    *)
(* since, or all rows of a page were deleted before the scan came to it.   *)
UndefinedOnlyIf ==
    status = "undefined" =>
        \/ itopt.numPages = 0
        \/ itopt.end /\ itopt.numPages < numPages
        \/ ~ itopt.end /\ \A r \in due : r[1] # itopt.hpid

-------------------------------------------------------------------------------
(* What the headers say, and the code does not do.                         *)

(* DbIterator.h:16: hasNext() "Returns true if the iterator has more       *)
(* tuples", so that next() has one to return.                              *)
HasNextMeansATuple ==
    itopt # Null /\ hasNext(itopt) => dereferenceable(itopt)

===============================================================================
