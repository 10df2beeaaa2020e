------------------------------ MODULE ValueMatrix ------------------------------
(***************************************************************************)
(* util/Matrix, in which a Subscription keeps its second level, and         *)
(* util/ConcurrentMatrix, in which it keeps the values of its items and      *)
(* rows: maps of rows to maps of columns to values.  A row is there from its *)
(* first element until its last is gone.                                    *)
(*                                                                          *)
(* The two have the same operations but for some; ConcurrentMatrix holds a   *)
(* lock through each of its own, and Matrix is used by one thread at a time.  *)
(* ConcurrentMatrix stores an empty value as the word NULL.  insertRow is     *)
(* given rows that have elements, and EntireMatrix is matrix itself.          *)
(***************************************************************************)
EXTENDS Naturals, Sequences, SequencesExt, FiniteSetsExt, RecursiveData

CONSTANTS
  RowIds, ColumnIds,   (* numbers of rows and columns  *)
  CellValues           (* values, "" and "NULL" if any *)

ASSUME MatrixAssumption ==
  /\ RowIds \subseteq Nat /\ IsFiniteSet(RowIds) /\ ColumnIds \subseteq Nat /\ IsFiniteSet(ColumnIds)
  /\ "erased" \notin CellValues

VARIABLES
  concurrent,   (* is it a ConcurrentMatrix                                 *)
  matrix,       (* the rows that are there, and their columns                *)
  written       (* the value of each cell as it was last written, or Erased  *)

matrixVars == <<concurrent, matrix, written>>

Erased == "erased"
NULL_VALUE == "NULL"
Cells == RowIds \X ColumnIds

(* A map with a value for one more key. *)
With(f, key, value) == [k \in DOMAIN f \cup {key} |-> IF k = key THEN value ELSE f[k]]

MatrixTypeOK ==
  /\ concurrent \in BOOLEAN
  /\ DOMAIN matrix \subseteq RowIds
  /\ \A r \in DOMAIN matrix : DOMAIN matrix[r] \subseteq ColumnIds /\ Range(matrix[r]) \subseteq CellValues \cup {NULL_VALUE}
  /\ written \in [Cells -> CellValues \cup {"", Erased}]
-----------------------------------------------------------------------------
(* get, getRow, Count, Empty.  ConcurrentMatrix turns an empty value into    *)
(* NULL and back, in insert and get alone. *)
Encoded(value) == IF concurrent /\ value = "" THEN NULL_VALUE ELSE value
Decoded(value) == IF concurrent /\ value = NULL_VALUE THEN "" ELSE value

Get(row, column) ==
  IF row \in DOMAIN matrix /\ column \in DOMAIN matrix[row] THEN Decoded(matrix[row][column]) ELSE ""
GetRow(row) == IF row \in DOMAIN matrix THEN matrix[row] ELSE <<>>
Count(row) == IF row \in DOMAIN matrix THEN Cardinality(DOMAIN matrix[row]) ELSE 0
Empty == DOMAIN matrix = {}

(* Mutant: descending, as if std::greater had been given. *)
Descending(numbers) ==
  CHOOSE s \in [1..Cardinality(numbers) -> numbers] : \A i, j \in DOMAIN s : i < j => s[i] > s[j]
(* A std::set of numbers, as it is gone through. *)
Ascending(numbers) ==
  CHOOSE s \in [1..Cardinality(numbers) -> numbers] : \A i, j \in DOMAIN s : i < j => s[i] < s[j]
(* sortAndCleanMatrix: the values, by row and then by column. *)
SortedRow(row) == LET columns == Ascending(DOMAIN matrix[row]) IN [j \in DOMAIN columns |-> matrix[row][columns[j]]]
Sorted ==
  Folded([p \in Seq(CellValues \cup {NULL_VALUE}) \X DOMAIN matrix |-> p[1] \o SortedRow(p[2])], <<>>, Ascending(DOMAIN matrix))
-----------------------------------------------------------------------------
(* insert and insertRow. *)
MatrixInsert(value, row, column) ==
  /\ matrix' = With(matrix, row, With(GetRow(row), column, Encoded(value)))
  /\ written' = [written EXCEPT ![<<row, column>>] = value]
  /\ UNCHANGED concurrent
MatrixInsertRow(columns, value, row) ==
  /\ matrix' = With(matrix, row, [c \in columns |-> value])
  /\ written' = [cell \in Cells |-> IF cell[1] # row THEN written[cell]
                                    ELSE IF cell[2] \in columns THEN Decoded(value) ELSE Erased]
  /\ UNCHANGED concurrent

(* Some cells erased; a row goes with its last element. *)
Remaining(row, cells) == {column \in DOMAIN matrix[row] : <<row, column>> \notin cells}
Erase(cells) ==
  /\ matrix' = [row \in {r \in DOMAIN matrix : Remaining(r, cells) # {}} |->
                  [column \in Remaining(row, cells) |-> matrix[row][column]]]
  /\ written' = [cell \in Cells |-> IF cell \in cells THEN Erased ELSE written[cell]]
  /\ UNCHANGED concurrent

(* Mutant: a row stays when its last element is erased. *)
DelKeepingRow(row, column) ==
  /\ row \in DOMAIN matrix
  /\ matrix' = With(matrix, row, [c \in Remaining(row, {<<row, column>>}) |-> matrix[row][c]])
  /\ written' = [written EXCEPT ![<<row, column>>] = Erased]
  /\ UNCHANGED concurrent
(* del. *)
MatrixDel(row, column) == row \in DOMAIN matrix /\ Erase({<<row, column>>})

(* delRow, and clear and sortAndCleanMatrix of Matrix. *)
MatrixDelRow(row) == Erase({row} \X ColumnIds)
MatrixClear == ~concurrent /\ Erase(Cells)

(* forEachRow: Matrix erases the rows its callback refuses to keep,          *)
(* ConcurrentMatrix those the callback asks to remove. *)
ForEachRow(rows) == rows \subseteq DOMAIN matrix /\ Erase(rows \X ColumnIds)

(* forEachElement of Matrix erases an element while it walks through the     *)
(* rows, and the walk that goes on from there is undefined: it may reach, and *)
(* erase, any others that the callback refuses.  That of ConcurrentMatrix     *)
(* erases nothing. *)
ForEachElement(refused) ==
  /\ ~concurrent
  /\ \E reached \in SUBSET {cell \in refused : cell[1] \in DOMAIN matrix /\ cell[2] \in DOMAIN matrix[cell[1]]} :
       reached # {} /\ Erase(reached)

(* forEachElementInRow of ConcurrentMatrix: on a copy of the row's keys. *)
ForEachElementInRow(row, columns) ==
  /\ concurrent /\ row \in DOMAIN matrix /\ columns \subseteq DOMAIN matrix[row]
  /\ Erase({row} \X columns)
-----------------------------------------------------------------------------
MatrixInit == concurrent \in BOOLEAN /\ matrix = <<>> /\ written = [cell \in Cells |-> Erased]

MatrixNext ==
  \/ \E row \in RowIds, column \in ColumnIds :
       (\E value \in CellValues : MatrixInsert(value, row, column)) \/ MatrixDel(row, column)
  \/ \E row \in RowIds, columns \in (SUBSET ColumnIds) \ {{}} :
       (\E value \in CellValues : MatrixInsertRow(columns, value, row)) \/ ForEachElementInRow(row, columns)
  \/ \E row \in RowIds : MatrixDelRow(row)
  \/ \E rows \in SUBSET RowIds : ForEachRow(rows)
  \/ \E refused \in SUBSET Cells : ForEachElement(refused)
  \/ MatrixClear
MatrixSpec == MatrixInit /\ [][MatrixNext]_matrixVars
-----------------------------------------------------------------------------
(* Properties.                                                             *)

WrittenCells == {cell \in Cells : written[cell] # Erased}
Before(a, b) == a[1] < b[1] \/ (a[1] = b[1] /\ a[2] < b[2])

(* The values of a sorted matrix are those written, in the order of their cells. *)
SortedAsWritten ==
  \E order \in [1..Cardinality(WrittenCells) -> WrittenCells] :
    /\ \A i, j \in DOMAIN order : i < j => Before(order[i], order[j])
    /\ Sorted = [i \in DOMAIN order |-> written[order[i]]]

(* A matrix holds the elements that were written and not erased, and nothing *)
(* of those erased: each reads as written, but the word NULL as an empty      *)
(* value where NULL stands for one, the counts are theirs, a matrix is empty   *)
(* once all are gone, and what a Matrix sorts are all of them.                *)
HoldsWhatIsWritten ==
  /\ \A cell \in Cells : Get(cell[1], cell[2]) = (IF cell \in WrittenCells THEN Decoded(written[cell]) ELSE "")
  /\ \A row \in RowIds : Count(row) = Cardinality({cell \in WrittenCells : cell[1] = row})
  /\ Empty <=> WrittenCells = {}
  /\ ~concurrent => SortedAsWritten
================================================================================
