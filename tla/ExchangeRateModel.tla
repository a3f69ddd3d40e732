--------------------------- MODULE ExchangeRateModel ---------------------------
(***************************************************************************)
(* The generated model of exchange_rates (internal/db/bob/bob), the table  *)
(* information it was generated from (dbinfo, dberrors), and a session     *)
(* that works with its objects while another changes the same rows.        *)
(*                                                                         *)
(* The session has one object it works on, held, and one slice of objects. *)
(* Objects are pointers: the slice may contain the held one itself, and    *)
(* then sees what is done to it.  A call through an object assigns to it;  *)
(* a call through a slice puts new objects into the slice and leaves the   *)
(* old ones as they were.                                                  *)
(*                                                                         *)
(* A statement and the copying of what it returned are one step: another   *)
(* session may change the rows before the copying is done, but it sees     *)
(* nothing of the objects and they see nothing of it, so that the two may  *)
(* change places.  What an object is compared with are the rows as the     *)
(* statement left them.                                                    *)
(***************************************************************************)
EXTENDS Integers, Sequences, FiniteSets, SequencesExt

CONSTANTS
  Domain,   \* per column, the values a row can have
  Setters,  \* the setters the session uses
  Null, Unset, Nil, NoRow

VARIABLES
  rows,     \* the table: per id, its row or NoRow
  held,     \* what the held object contains, or Nil
  items,    \* the slice: per element its content, and whether it is held
  op,       \* the last call
  err       \* what it returned

modelVars == <<rows, held, items, op, err>>

(* In the order of buildExchangeRateColumns.                               *)
Columns == <<"id", "base_currency", "quote_currency", "rate", "effective_date",
             "source", "source_published_at", "created_at">>

Column     == ToSet(Columns)
Nullable   == {"source_published_at"}
HasDefault == {"base_currency", "source_published_at", "created_at"}
PrimaryKey == {"id"}
UniqueKey  == {"source", "base_currency", "quote_currency", "effective_date"}

Id  == Domain["id"]
Row == [id : Id, base_currency : Domain["base_currency"],
        quote_currency : Domain["quote_currency"], rate : Domain["rate"],
        effective_date : Domain["effective_date"], source : Domain["source"],
        source_published_at : Domain["source_published_at"], created_at : Domain["created_at"]]

IsSetter(s) == DOMAIN s = Column /\ \A c \in Column : s[c] \in Domain[c] \cup {Unset}

ASSUME DomainAssumption ==
  /\ DOMAIN Domain = Column
  /\ \A c \in Column : (Null \in Domain[c] <=> c \in Nullable) /\ Unset \notin Domain[c]

(* An id is a UUID.                                                        *)
ASSUME IdAssumption == IsFiniteSet(Id)

ASSUME SettersAssumption == \A s \in Setters : IsSetter(s)

(* DEFAULT: what the table gives a column nothing was given for.           *)
DefaultOf(c) == IF c \in HasDefault \ Nullable THEN CHOOSE v \in Domain[c] : TRUE ELSE Null

(* The zero ExchangeRate.  No id and no currency is 0.                     *)
ZeroRow == [c \in Column |-> IF c \in Nullable THEN Null ELSE 0]

(* An ExchangeRate: per column a value of the column, or the zero.         *)
Object == {o \in [Column -> UNION {Domain[c] \cup {ZeroRow[c]} : c \in Column}] :
             \A c \in Column : o[c] \in Domain[c] \cup {ZeroRow[c]}}

ASSUME NilAssumption == Nil \notin Object /\ NoRow \notin Object

-----------------------------------------------------------------------------
(* Setters.  A column is set if its value is given: the code asks IsValue  *)
(* of the columns that are not nullable and IsUnset of the one that is, so *)
(* that NULL counts as given.                                              *)

IsSet(s, c) == s[c] # Unset

WithColumn(s, vals, c) == IF IsSet(s, c) THEN Append(vals, c) ELSE vals

SetColumns(s) ==
  LET vals[n \in 0..Len(Columns)] == IF n = 0 THEN <<>>
                                     ELSE WithColumn(s, vals[n - 1], Columns[n])
  IN  vals[Len(Columns)]

(* Overwrite: on an object in memory.                                      *)
Overwrite(s, row) == [c \in Column |-> IF IsSet(s, c) THEN s[c] ELSE row[c]]

(* The assignments of UPDATE ... SET, and the row they make.               *)
Expressions(s) == {<<c, s[c]>> : c \in {c \in Column : IsSet(s, c)}}

Assigned(exprs, row) ==
  [c \in Column |-> IF \E e \in exprs : e[1] = c
                    THEN (CHOOSE e \in exprs : e[1] = c)[2] ELSE row[c]]

(* Mutant of Apply: the zero value for what is not set.                    *)
ApplyZero(s) == [c \in Column |-> IF IsSet(s, c) THEN s[c] ELSE ZeroRow[c]]

(* VALUES (...): DEFAULT for what is not set.                              *)
Apply(s) == [c \in Column |-> IF IsSet(s, c) THEN s[c] ELSE DefaultOf(c)]

-----------------------------------------------------------------------------
(* Statements.                                                             *)

Stored     == {i \in Id : rows[i] # NoRow}
StoredRows == {rows[i] : i \in Stored}

(* The table made of the rows R.                                           *)
TableOf(R) == [i \in Id |-> IF \E r \in R : r.id = i THEN CHOOSE r \in R : r.id = i
                            ELSE NoRow]

(* pkIN: of an empty slice, NULL, which no id is in.                       *)
pkIN(S, i) == \E k \in 1..Len(S) : S[k].row.id = i

(* Mutant of InSlice: an empty slice adds no condition.                    *)
InSliceOrEmpty(S) == {i \in Stored : S = <<>> \/ pkIN(S, i)}
InSlice(S)        == {i \in Stored : pkIN(S, i)}

Same(a, b, key) == \A c \in key : a[c] = b[c]

(* The rows after an UPDATE of the rows ids, and the constraint it breaks. *)
Updated(ids, s) ==
  [i \in Stored |-> IF i \in ids THEN Assigned(Expressions(s), rows[i]) ELSE rows[i]]

Breaks(ids, s, key) ==
  \E i \in ids, j \in Stored : i # j /\ Same(Updated(ids, s)[i], Updated(ids, s)[j], key)

(* An UPDATE without assignments is no statement.                          *)
UpdateError(ids, s) ==
  IF Expressions(s) = {} THEN "syntax"
  ELSE IF Breaks(ids, s, PrimaryKey) THEN "pkey"
  ELSE IF Breaks(ids, s, UniqueKey) THEN "key" ELSE "nil"

UpdateRows(ids, s) == rows' = TableOf({Updated(ids, s)[i] : i \in Stored})

InsertError(row) ==
  IF \E c \in Column \ Nullable : row[c] = Null THEN "notnull"
  ELSE IF \E r \in StoredRows : Same(row, r, PrimaryKey) THEN "pkey"
  ELSE IF \E r \in StoredRows : Same(row, r, UniqueKey) THEN "key" ELSE "nil"

Returns(name, result) == op' = name /\ err' = result

-----------------------------------------------------------------------------

ModelInit ==
  /\ rows  = [i \in Id |-> NoRow]
  /\ held  = Nil
  /\ items = <<>>
  /\ op    = "none"
  /\ err   = "nil"

Apart(S) == [k \in 1..Len(S) |-> [S[k] EXCEPT !.same = FALSE]]

(* *o = *v: elements that are the same object change with it.              *)
Assign(row) ==
  /\ held' = row
  /\ items' = [k \in 1..Len(items) |-> IF items[k].same THEN [items[k] EXCEPT !.row = row]
                                       ELSE items[k]]

(* FindExchangeRate: the columns asked for, or all; the others are zero.   *)
FindExchangeRate(i, cols) ==
  /\ IF rows[i] = NoRow
     THEN Returns("find", "norows") /\ UNCHANGED <<held, items>>
     ELSE /\ Returns("find", "nil")
          /\ held' = [c \in Column |-> IF cols = {} \/ c \in cols THEN rows[i][c] ELSE ZeroRow[c]]
          /\ items' = Apart(items)
  /\ UNCHANGED rows

(* ExchangeRates.Query().All: a slice of every row, in some order.         *)
All ==
  /\ \E s \in SetToSeqs(StoredRows) :
       items' = [k \in 1..Len(s) |-> [row |-> s[k], same |-> FALSE]]
  /\ Returns("all", "nil")
  /\ UNCHANGED <<rows, held>>

(* The caller takes an element of the slice to work on.                    *)
TakeItem(k) ==
  /\ k \in 1..Len(items)
  /\ held' = items[k].row
  /\ items' = [Apart(items) EXCEPT ![k].same = TRUE]
  /\ Returns("take", "nil")
  /\ UNCHANGED rows

Update(s) ==
  /\ held # Nil
  /\ LET ids == {held.id} \cap Stored
         e   == UpdateError(ids, s) IN
     IF e # "nil" THEN Returns("update", e) /\ UNCHANGED <<rows, held, items>>
     ELSE IF ids = {} THEN Returns("update", "norows") /\ UNCHANGED <<rows, held, items>>
     ELSE /\ UpdateRows(ids, s)
          /\ Assign(Assigned(Expressions(s), rows[held.id]))
          /\ Returns("update", "nil")

(* DELETE of nothing is no error, and the object stays as it is.           *)
Delete ==
  /\ held # Nil
  /\ rows' = [i \in Id |-> IF i = held.id THEN NoRow ELSE rows[i]]
  /\ Returns("delete", "nil")
  /\ UNCHANGED <<held, items>>

Reload ==
  /\ held # Nil
  /\ IF held.id \in Stored
     THEN Assign(rows[held.id]) /\ Returns("reload", "nil")
     ELSE Returns("reload", "norows") /\ UNCHANGED <<held, items>>
  /\ UNCHANGED rows

(* Mutant of copyMatchingRows: matched by position.                        *)
CopyInOrder(S, from) ==
  LET f == SetToSeq(from) IN
  [k \in 1..Len(S) |-> IF k <= Len(f) THEN [row |-> f[k], same |-> FALSE] ELSE S[k]]

copyMatchingRows(S, from) ==
  [k \in 1..Len(S) |-> IF \E r \in from : r.id = S[k].row.id
                       THEN [row |-> CHOOSE r \in from : r.id = S[k].row.id, same |-> FALSE]
                       ELSE S[k]]

(* Every call on an empty slice returns before it makes a statement.       *)
UpdateAll(s) ==
  LET ids == InSlice(items)
      e   == UpdateError(ids, s) IN
  \/ /\ items = <<>> \/ e # "nil"
     /\ Returns("updateall", IF items = <<>> THEN "nil" ELSE e)
     /\ UNCHANGED <<rows, held, items>>
  \/ /\ items # <<>> /\ e = "nil"
     /\ UpdateRows(ids, s)
     /\ items' = copyMatchingRows(items, {Assigned(Expressions(s), rows[i]) : i \in ids})
     /\ Returns("updateall", "nil")
     /\ UNCHANGED held

(* Exec returns no rows: the elements stay.                                *)
DeleteAll ==
  /\ rows' = [i \in Id |-> IF i \in InSlice(items) THEN NoRow ELSE rows[i]]
  /\ Returns("deleteall", "nil")
  /\ UNCHANGED <<held, items>>

ReloadAll ==
  /\ items' = copyMatchingRows(items, {rows[i] : i \in InSlice(items)})
  /\ Returns("reloadall", "nil")
  /\ UNCHANGED <<rows, held>>

(* Another session.                                                        *)
OtherDeletes(i) ==
  /\ i \in Stored
  /\ rows' = [rows EXCEPT ![i] = NoRow]
  /\ Returns("other", "nil")
  /\ UNCHANGED <<held, items>>

OtherUpdates(i, s) ==
  /\ i \in Stored
  /\ UpdateError({i}, s) = "nil"
  /\ UpdateRows({i}, s)
  /\ Returns("other", "nil")
  /\ UNCHANGED <<held, items>>

Session ==
  \/ \E i \in Id : FindExchangeRate(i, {}) \/ FindExchangeRate(i, {"rate"})
  \/ All \/ Delete \/ Reload \/ DeleteAll \/ ReloadAll
  \/ \E k \in 1..Len(items) : TakeItem(k)
  \/ \E s \in Setters : Update(s) \/ UpdateAll(s)

Other ==
  \E i \in Id : OtherDeletes(i) \/ \E s \in Setters : OtherUpdates(i, s)

-----------------------------------------------------------------------------

(* Types.  An object contains a row, a row read in part, or what a factory *)
(* built; elements that are the held object contain what it contains.      *)
ModelTypeOK ==
  /\ DOMAIN rows = Id
  /\ \A i \in Stored : \A c \in Column : rows[i][c] \in Domain[c]
  /\ \A i \in Stored : rows[i].id = i
  /\ held # Nil => \A c \in Column : held[c] \in Domain[c] \cup {ZeroRow[c]}
  /\ \A k \in 1..Len(items) : items[k].same => held # Nil /\ items[k].row = held
  /\ err \in {"nil", "norows", "pkey", "key", "notnull", "syntax"}

(* Every method of a setter takes the same columns for set: what Overwrite *)
(* makes of a row in memory is what UPDATE makes of it in the table, the   *)
(* columns SetColumns names are those assigned, and an INSERT is what      *)
(* Overwrite makes of a row of defaults (bob/exchange_rates.bob.go:107,    *)
(* 136, 163, 226).                                                         *)
MethodsAgree(s) ==
  /\ \A row \in StoredRows : Overwrite(s, row) = Assigned(Expressions(s), row)
  /\ ToSet(SetColumns(s)) = {e[1] : e \in Expressions(s)}
  /\ Apply(s) = Overwrite(s, [c \in Column |-> DefaultOf(c)])

(* A statement of a slice or an object changes no row but its own, an      *)
(* empty slice none at all (bob/exchange_rates.bob.go:335-339, 393-405).   *)
TouchesOnlyItsRows ==
  [][ LET changed == {i \in Stored : rows'[i] # rows[i]} IN
      /\ op' \in {"updateall", "deleteall", "reloadall"} =>
           changed \subseteq {items[k].row.id : k \in 1..Len(items)}
      /\ op' \in {"update", "delete", "reload"} => changed \subseteq {held.id}
      /\ op' \in {"create", "createmany"} => changed = {} ]_modelVars

(* After a call that returned no error the object it was made on is the    *)
(* row the table has.  Each element of a slice is the row of its id, in    *)
(* its place, however the database ordered what it returned; an element    *)
(* whose row is gone keeps what it was (bob/exchange_rates.bob.go:342-371, *)
(* 410-421, 509-540).  UpdateAll does not promise it when it gives a row   *)
(* another id: no element follows the row there, and one that had that id  *)
(* takes its content.                                                      *)
ObjectsFollowRows ==
  [][ /\ op' \in {"update", "reload", "create"} /\ err' = "nil" => held' = rows'[held'.id]
      /\ op' \in {"updateall", "reloadall"} /\ err' = "nil" /\ Stored' = Stored =>
           /\ Len(items') = Len(items)
           /\ \A k \in 1..Len(items) :
                items'[k].row = IF items[k].row.id \in Stored THEN rows'[items[k].row.id]
                                ELSE items[k].row ]_modelVars

=============================================================================
