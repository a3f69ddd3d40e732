------------------------------ MODULE ModelProofs ------------------------------
(* Theorems about ExchangeRateModel and RateFactory, for any values of the *)
(* columns, any setters, any mods and any numbers of rows.                 *)
EXTENDS RateFactory, TLAPS, FiniteSetTheorems, LoopLemmas

(* The table is what a table with a primary key is.                        *)
KeyedInv ==
  /\ rows = [i \in Id |-> rows[i]]
  /\ \A i \in Stored : rows[i].id = i

(* A row filed under an id has it.                                         *)
LEMMA TableIsKeyed ==
  ASSUME NEW R
  PROVE  /\ TableOf(R) = [i \in Id |-> TableOf(R)[i]]
         /\ \A i \in Id : TableOf(R)[i] # NoRow => TableOf(R)[i].id = i
  BY DEF TableOf

(* An UPDATE leaves the rows it was not to change as they were: another    *)
(* row with their id would break the primary key.                          *)
LEMMA OthersAreKept ==
  ASSUME KeyedInv, NEW ids \in SUBSET Stored, NEW s, UpdateError(ids, s) = "nil",
         UpdateRows(ids, s), NEW i \in Stored \ ids
  PROVE  rows'[i] = rows[i]
<1> DEFINE R == {Updated(ids, s)[j] : j \in Stored}
<1>1. rows' = TableOf(R) /\ i \in Id
  BY DEF UpdateRows, Stored
<1>2. Updated(ids, s)[i] = rows[i] /\ rows[i].id = i
  BY DEF Updated, KeyedInv
<1>3. ~Breaks(ids, s, PrimaryKey)
  BY DEF UpdateError
<1>4. ASSUME NEW j \in Stored, Updated(ids, s)[j].id = i PROVE j = i
  <2>1. CASE j \in ids
    BY <1>2, <1>3, <1>4, <2>1 DEF Breaks, Same, PrimaryKey
  <2>2. CASE j \notin ids
    BY <1>4, <2>2 DEF Updated, KeyedInv
  <2> QED
    BY <2>1, <2>2
<1>5. \A r \in R : r.id = i => r = rows[i]
  BY <1>2, <1>4
<1>6. rows[i] \in R /\ rows[i].id = i
  BY <1>2
<1>7. TableOf(R)[i] = CHOOSE r \in R : r.id = i
  BY <1>1, <1>6 DEF TableOf
<1> QED
  BY <1>1, <1>5, <1>6, <1>7

(* An INSERT that breaks nothing adds a row.                               *)
LEMMA InsertAdds ==
  ASSUME KeyedInv, NEW row, InsertError(row) = "nil", Insert(row)
  PROVE  KeyedInv' /\ \A i \in Stored : rows'[i] = rows[i]
<1>1. \A i \in Stored : row.id # i
  BY DEF InsertError, StoredRows, Same, PrimaryKey, KeyedInv
<1>2. rows' = [i \in Id |-> IF i = row.id THEN row ELSE rows[i]]
  BY DEF Insert, KeyedInv
<1> QED
  BY <1>1, <1>2 DEF KeyedInv, Stored

(* Steps that do not touch the table.                                      *)
LEMMA KeyedFrame ==
  ASSUME KeyedInv, rows' = rows
  PROVE  KeyedInv' /\ \A i \in Stored : rows'[i] = rows[i]
  BY DEF KeyedInv, Stored

(* Steps that remove rows.                                                 *)
LEMMA DeletesKeep ==
  ASSUME KeyedInv, NEW gone, rows' = [i \in Id |-> IF i \in gone THEN NoRow ELSE rows[i]]
  PROVE  KeyedInv' /\ \A i \in Stored \ gone : rows'[i] = rows[i]
  BY DEF KeyedInv, Stored

(* Steps that update rows.                                                 *)
LEMMA UpdatesKeep ==
  ASSUME KeyedInv, NEW ids \in SUBSET Stored, NEW s, UpdateError(ids, s) = "nil",
         UpdateRows(ids, s)
  PROVE  KeyedInv' /\ \A i \in Stored \ ids : rows'[i] = rows[i]
<1>1. KeyedInv'
  BY TableIsKeyed DEF UpdateRows, KeyedInv, Stored
<1> QED
  BY <1>1, OthersAreKept

(* What a call on the held object or on the slice may change.              *)
Own(name) ==
  IF name \in {"updateall", "deleteall", "reloadall"} THEN {items[k].row.id : k \in 1..Len(items)}
  ELSE IF name \in {"update", "delete", "reload"} THEN {held.id} ELSE {}

OthersKept == op' # "other" => \A i \in Stored \ Own(op') : rows'[i] = rows[i]

(* Every call of the session and of the other one keeps the table keyed    *)
(* and the rows of others as they are.                                     *)
LEMMA SessionStep ==
  ASSUME KeyedInv, Session \/ Other
  PROVE  KeyedInv' /\ OthersKept
<1> USE DEF Returns
<1>1. CASE Delete
  <2>1. rows' = [i \in Id |-> IF i \in {held.id} THEN NoRow ELSE rows[i]] /\ op' = "delete"
    BY <1>1 DEF Delete
  <2>2. KeyedInv' /\ \A i \in Stored \ {held.id} : rows'[i] = rows[i]
    BY <2>1, DeletesKeep
  <2> QED
    BY <2>1, <2>2 DEF OthersKept, Own
<1>2. CASE DeleteAll
  <2>1. rows' = [i \in Id |-> IF i \in InSlice(items) THEN NoRow ELSE rows[i]] /\ op' = "deleteall"
    BY <1>2 DEF DeleteAll
  <2>2. KeyedInv' /\ \A i \in Stored \ InSlice(items) : rows'[i] = rows[i]
    BY <2>1, DeletesKeep
  <2>3. InSlice(items) \subseteq Own("deleteall")
    BY DEF InSlice, pkIN, Own
  <2> QED
    BY <2>1, <2>2, <2>3 DEF OthersKept
<1>3. ASSUME NEW s \in Setters, Update(s) PROVE KeyedInv' /\ OthersKept
  <2>1. op' = "update"
    BY <1>3 DEF Update
  <2>2. CASE rows' = rows
    BY <2>1, <2>2, KeyedFrame DEF OthersKept
  <2>3. CASE rows' # rows
    <3> DEFINE ids == {held.id} \cap Stored
    <3>1. UpdateError(ids, s) = "nil" /\ UpdateRows(ids, s)
      BY <1>3, <2>3 DEF Update
    <3>2. KeyedInv' /\ \A i \in Stored \ ids : rows'[i] = rows[i]
      BY <3>1, UpdatesKeep
    <3> QED
      BY <2>1, <3>2 DEF OthersKept, Own
  <2> QED
    BY <2>2, <2>3
<1>4. ASSUME NEW s \in Setters, UpdateAll(s) PROVE KeyedInv' /\ OthersKept
  <2>1. op' = "updateall"
    BY <1>4 DEF UpdateAll
  <2>2. CASE rows' = rows
    BY <2>1, <2>2, KeyedFrame DEF OthersKept
  <2>3. CASE rows' # rows
    <3> DEFINE ids == InSlice(items)
    <3>1. UpdateError(ids, s) = "nil" /\ UpdateRows(ids, s)
      BY <1>4, <2>3 DEF UpdateAll
    <3>2. ids \in SUBSET Stored /\ ids \subseteq Own("updateall")
      BY DEF InSlice, pkIN, Own
    <3>3. KeyedInv' /\ \A i \in Stored \ ids : rows'[i] = rows[i]
      BY <3>1, <3>2, UpdatesKeep
    <3> QED
      BY <2>1, <3>2, <3>3 DEF OthersKept
  <2> QED
    BY <2>2, <2>3
<1>5. ASSUME NEW i \in Id, OtherDeletes(i) PROVE KeyedInv' /\ OthersKept
  <2>1. rows' = [j \in Id |-> IF j \in {i} THEN NoRow ELSE rows[j]] /\ op' = "other"
    BY <1>5 DEF OtherDeletes, KeyedInv
  <2> QED
    BY <2>1, DeletesKeep DEF OthersKept
<1>6. ASSUME NEW i \in Id, NEW s \in Setters, OtherUpdates(i, s) PROVE KeyedInv' /\ OthersKept
  <2>1. {i} \in SUBSET Stored /\ UpdateError({i}, s) = "nil" /\ UpdateRows({i}, s) /\ op' = "other"
    BY <1>6 DEF OtherUpdates
  <2> QED
    BY <2>1, UpdatesKeep DEF OthersKept
<1>7. CASE rows' = rows
  BY <1>7, KeyedFrame DEF OthersKept
<1> QED
  BY <1>1, <1>2, <1>3, <1>4, <1>5, <1>6, <1>7
     DEF Session, Other, FindExchangeRate, All, TakeItem, Reload, ReloadAll

(* Every step does.                                                        *)
LEMMA FactoryStep ==
  ASSUME KeyedInv, [FactoryNext]_vars
  PROVE  KeyedInv' /\ (UNCHANGED modelVars \/ OthersKept)
<1>1. CASE Session \/ Other
  BY <1>1, SessionStep
<1>2. CASE UNCHANGED vars
  BY <1>2, KeyedFrame DEF vars, modelVars
<1>3. CASE rows' = rows
  BY <1>3, KeyedFrame DEF OthersKept
<1>4. CASE \E row : InsertError(row) = "nil" /\ Insert(row)
  BY <1>4, InsertAdds DEF OthersKept
<1>5. ASSUME NEW t, Create(t) PROVE rows' = rows \/ \E row : InsertError(row) = "nil" /\ Insert(row)
  BY <1>5 DEF Create
<1>6. ASSUME CreateManyGoesOn PROVE rows' = rows \/ \E row : InsertError(row) = "nil" /\ Insert(row)
  BY <1>6 DEF CreateManyGoesOn
<1> QED
  BY <1>1, <1>2, <1>3, <1>4, <1>5, <1>6
     DEF FactoryNext, AddBaseExchangeRateMod, Build, BuildMany, CreateMany,
         ClearBaseExchangeRateMods, CreateFromExisting, CreateManyReturns

(* The inductive invariant.                                                *)
THEOREM TableStaysKeyed == FactorySpec => []KeyedInv
<1>1. FactoryInit => KeyedInv
  BY DEF FactoryInit, ModelInit, KeyedInv, Stored
<1>2. KeyedInv /\ [FactoryNext]_vars => KeyedInv'
  BY FactoryStep
<1> QED
  BY <1>1, <1>2, PTL DEF FactorySpec

(* A statement of a slice or an object changes no row but its own, an      *)
(* INSERT none that is there (bob/exchange_rates.bob.go:335-339, 393-405). *)
THEOREM StatementsTouchTheirRows == FactorySpec => TouchesOnlyItsRows
<1> DEFINE changed == {i \in Stored : rows'[i] # rows[i]}
           Touch   == /\ op' \in {"updateall", "deleteall", "reloadall"} =>
                           changed \subseteq {items[k].row.id : k \in 1..Len(items)}
                      /\ op' \in {"update", "delete", "reload"} => changed \subseteq {held.id}
                      /\ op' \in {"create", "createmany"} => changed = {}
<1>1. ASSUME KeyedInv, [FactoryNext]_vars PROVE [Touch]_modelVars
  <2>1. CASE UNCHANGED modelVars
    BY <2>1
  <2>2. CASE OthersKept
    <3>1. op' # "other" => changed \subseteq Own(op')
      BY <2>2 DEF OthersKept
    <3>2. Touch
      BY <3>1 DEF Own
    <3> QED
      BY <3>2
  <2> QED
    BY <1>1, <2>1, <2>2, FactoryStep
<1> QED
  BY TableStaysKeyed, <1>1, PTL DEF FactorySpec, TouchesOnlyItsRows

(* What a column is assigned, it is assigned once.                         *)
LEMMA AssignedOnce ==
  ASSUME NEW s, NEW c \in Column
  PROVE  /\ (\E e \in Expressions(s) : e[1] = c) <=> IsSet(s, c)
         /\ IsSet(s, c) => (CHOOSE e \in Expressions(s) : e[1] = c)[2] = s[c]
<1>1. \A e \in Expressions(s) : e = <<e[1], s[e[1]]>> /\ e[1] \in Column /\ IsSet(s, e[1])
  BY DEF Expressions
<1>2. IsSet(s, c) => <<c, s[c]>> \in Expressions(s)
  BY DEF Expressions
<1>3. \A e \in Expressions(s) : e[1] = c => e = <<c, s[c]>>
  BY <1>1
<1> QED
  BY <1>1, <1>2, <1>3

(* A setter makes of an object in memory what its UPDATE makes of a row,   *)
(* and its INSERT is what it makes of a row of defaults                    *)
(* (bob/exchange_rates.bob.go:136, 163, 226).                              *)
THEOREM SetterMethodsAgree ==
  ASSUME NEW s, NEW row
  PROVE  /\ Overwrite(s, row) = Assigned(Expressions(s), row)
         /\ Apply(s) = Overwrite(s, [c \in Column |-> DefaultOf(c)])
<1>1. \A c \in Column : Overwrite(s, row)[c] = Assigned(Expressions(s), row)[c]
  BY AssignedOnce DEF Overwrite, Assigned
<1>2. Overwrite(s, row) = Assigned(Expressions(s), row)
  BY <1>1 DEF Overwrite, Assigned
<1>3. Apply(s) = Overwrite(s, [c \in Column |-> DefaultOf(c)])
  BY DEF Apply, Overwrite
<1> QED
  BY <1>2, <1>3

(* Templates: per column no function, a value or Random.                   *)
Template == {t \in [Column -> UNION {Domain[c] \cup {Unset, Random} : c \in Column}] :
               \A c \in Column : t[c] \in Domain[c] \cup {Unset, Random}}

(* Whatever a template leaves out, its INSERT has a value for every column *)
(* that needs one: only a unique key can be in the way                     *)
(* (factory/exchange_rates.bob.go:169-217).                                *)
THEOREM CreatedRowsAreComplete ==
  ASSUME NEW t \in Template, NEW d \in Draw
  PROVE  InsertError(ToInsert(t, d)) \in {"nil", "pkey", "key"}
<1>1. \A c \in Column : d[c] # Null
  BY DEF Draw
<1>2. \A c \in Column \ Nullable : d[c] \in Domain[c]
  <2>1. Column = {"id", "base_currency", "quote_currency", "rate", "effective_date",
                  "source", "source_published_at", "created_at"}
    BY DEF Column, Columns, ToSet
  <2>2. d \in Row
    BY DEF Draw
  <2> QED
    BY <2>1, <2>2 DEF Row, Id
<1>3. ASSUME NEW c \in Column \ Nullable PROVE ToInsert(t, d)[c] # Null
  <2> DEFINE s == BuildSetter(t, d)
             f == ensureCreatable(s, d)
  <2>1. Null \notin Domain[c] /\ Unset \notin Domain[c]
    BY DomainAssumption
  <2>2. s[c] \in Domain[c] \cup {Unset}
    BY <1>2 DEF BuildSetter, Value, Template
  <2>3. f[c] \in Domain[c] \cup {Unset} /\ (c \in Required => f[c] \in Domain[c])
    BY <1>2, <2>2 DEF ensureCreatable, IsSet
  <2>4. CASE IsSet(f, c)
    BY <2>1, <2>3, <2>4 DEF ToInsert, Apply, IsSet
  <2>5. CASE ~IsSet(f, c)
    <3>1. c \notin Required
      BY <2>1, <2>3, <2>5 DEF IsSet
    <3>2. c \in HasDefault
      BY <3>1 DEF Required, HasDefault, Nullable, Column, Columns, ToSet
    <3>3. DefaultOf(c) \in Domain[c]
      BY <1>2, <3>2 DEF DefaultOf
    <3> QED
      BY <2>1, <2>5, <3>3 DEF ToInsert, Apply
  <2> QED
    BY <2>4, <2>5
<1> QED
  BY <1>3 DEF InsertError

-----------------------------------------------------------------------------

(* What the table holds.                                                   *)
StoredRow == {o \in Object : \A c \in Column : o[c] \in Domain[c]}

(* A function per column is an object if it has values for objects, and a  *)
(* row if it has values of the columns.                                    *)
LEMMA MakesObject ==
  ASSUME NEW o, o = [c \in Column |-> o[c]],
         \A c \in Column : o[c] \in Domain[c] \cup {ZeroRow[c]}
  PROVE  o \in Object
<1>1. \A c \in Column : o[c] \in UNION {Domain[b] \cup {ZeroRow[b]} : b \in Column}
  OBVIOUS
<1>2. o \in [Column -> UNION {Domain[b] \cup {ZeroRow[b]} : b \in Column}]
  BY <1>1
<1> QED
  BY <1>2 DEF Object

LEMMA MakesRow ==
  ASSUME NEW o, o = [c \in Column |-> o[c]], \A c \in Column : o[c] \in Domain[c]
  PROVE  o \in StoredRow
  BY MakesObject DEF StoredRow

LEMMA RowFacts ==
  ASSUME NEW o \in StoredRow
  PROVE  /\ o \in Object
         /\ \A c \in Column : o[c] \in Domain[c]
         /\ o["id"] \in Id
<1>1. "id" \in Column
  BY DEF Column, Columns, ToSet
<1> QED
  BY <1>1 DEF StoredRow, Id

(* What the random functions return are values of the columns.             *)
LEMMA DrawFacts ==
  ASSUME NEW d \in Draw PROVE \A c \in Column : d[c] \in Domain[c] /\ d[c] # Null
<1>1. Column = {"id", "base_currency", "quote_currency", "rate", "effective_date",
                "source", "source_published_at", "created_at"}
  BY DEF Column, Columns, ToSet
<1> QED
  BY <1>1 DEF Draw, Row, Id

(* An UPDATE makes a row of a row.                                         *)
LEMMA AssignedType ==
  ASSUME NEW s \in Setters, NEW row \in StoredRow
  PROVE  Assigned(Expressions(s), row) \in StoredRow
<1> DEFINE o == Assigned(Expressions(s), row)
<1>1. o = [c \in Column |-> o[c]]
  BY DEF Assigned
<1>2. ASSUME NEW c \in Column PROVE o[c] \in Domain[c]
  <2>1. s[c] \in Domain[c] \cup {Unset} /\ row[c] \in Domain[c]
    BY SettersAssumption, RowFacts DEF IsSetter
  <2>2. CASE IsSet(s, c)
    <3>1. o[c] = s[c]
      BY <2>2, AssignedOnce DEF Assigned
    <3> QED
      BY <2>1, <2>2, <3>1 DEF IsSet
  <2>3. CASE ~IsSet(s, c)
    <3>1. o[c] = row[c]
      BY <2>3, AssignedOnce DEF Assigned
    <3> QED
      BY <2>1, <3>1
  <2> QED
    BY <2>2, <2>3
<1> QED
  BY <1>1, <1>2, MakesRow

(* What Create inserts is a row.                                           *)
LEMMA InsertType ==
  ASSUME NEW t \in Template, NEW d \in Draw PROVE ToInsert(t, d) \in StoredRow
<1> DEFINE s == BuildSetter(t, d)
           f == ensureCreatable(s, d)
           o == ToInsert(t, d)
<1>1. o = [c \in Column |-> o[c]]
  BY DEF ToInsert, Apply
<1>2. ASSUME NEW c \in Column PROVE o[c] \in Domain[c]
  <2>1. d[c] \in Domain[c] /\ Unset \notin Domain[c]
    BY DrawFacts, DomainAssumption
  <2>2. s[c] \in Domain[c] \cup {Unset}
    BY <2>1 DEF BuildSetter, Value, Template
  <2>3. f[c] \in Domain[c] \cup {Unset}
    BY <2>1, <2>2 DEF ensureCreatable
  <2>4. DefaultOf(c) \in Domain[c] \/ (c \in Required /\ c \notin Nullable)
    <3>1. CASE c \in Nullable
      BY <3>1, DomainAssumption DEF DefaultOf
    <3>2. CASE c \notin Nullable /\ c \in HasDefault
      BY <2>1, <3>2 DEF DefaultOf
    <3>3. CASE c \notin Nullable /\ c \notin HasDefault
      BY <3>3 DEF Required, HasDefault, Nullable, Column, Columns, ToSet
    <3> QED
      BY <3>1, <3>2, <3>3
  <2>5. CASE f[c] # Unset
    BY <2>3, <2>5 DEF ToInsert, Apply, IsSet
  <2>6. CASE f[c] = Unset
    <3>1. c \notin Required
      BY <2>1, <2>6 DEF ensureCreatable, IsSet
    <3>2. o[c] = DefaultOf(c)
      BY <2>6 DEF ToInsert, Apply, IsSet
    <3> QED
      BY <2>4, <3>1, <3>2
  <2> QED
    BY <2>5, <2>6
<1> QED
  BY <1>1, <1>2, MakesRow

(* What Build returns is an object.                                        *)
LEMMA BuildType ==
  ASSUME NEW t \in Template, NEW d \in Draw PROVE BuildObject(t, d) \in Object
<1> DEFINE o == BuildObject(t, d)
<1>1. o = [c \in Column |-> o[c]]
  BY DEF BuildObject
<1>2. ASSUME NEW c \in Column PROVE o[c] \in Domain[c] \cup {ZeroRow[c]}
  <2>1. d[c] \in Domain[c] /\ t[c] \in Domain[c] \cup {Unset, Random}
    BY DrawFacts DEF Template
  <2> QED
    BY <2>1 DEF BuildObject, Value
<1> QED
  BY <1>1, <1>2, MakesObject

-----------------------------------------------------------------------------

(* A mod gives its column its function, and leaves the others alone.       *)
LEMMA ModApplied ==
  ASSUME NEW u \in Template, NEW mod \in Mod
  PROVE  /\ ApplyMod(u, mod) \in Template
         /\ mod.col \in Column
         /\ ApplyMod(u, mod)[mod.col] = mod.gen
         /\ \A c \in Column \ {mod.col} : ApplyMod(u, mod)[c] = u[c]
<1>1. mod.col \in Column /\ mod.gen \in Domain[mod.col] \cup {Unset, Random}
  BY DEF Mod
<1>2. u \in [Column -> UNION {Domain[c] \cup {Unset, Random} : c \in Column}]
  BY DEF Template
<1>3. ApplyMod(u, mod) \in [Column -> UNION {Domain[c] \cup {Unset, Random} : c \in Column}]
  <2>1. mod.gen \in UNION {Domain[c] \cup {Unset, Random} : c \in Column}
    BY <1>1
  <2> QED
    BY <1>2, <2>1 DEF ApplyMod
<1>4. /\ ApplyMod(u, mod)[mod.col] = mod.gen
      /\ \A c \in Column \ {mod.col} : ApplyMod(u, mod)[c] = u[c]
  BY <1>1, <1>2 DEF ApplyMod
<1>5. \A c \in Column : ApplyMod(u, mod)[c] \in Domain[c] \cup {Unset, Random}
  BY <1>1, <1>4 DEF Template
<1> QED
  BY <1>1, <1>3, <1>4, <1>5 DEF Template

(* The loop over the mods of a template takes them one after the other.    *)
LEMMA ApplyUnfolds ==
  ASSUME NEW mods \in Seq(Mod), NEW t \in Template
  PROVE  \E f : /\ Apply1(mods, t) = f[Len(mods)]
                /\ f[0] = t
                /\ \A n \in 1..Len(mods) : f[n] = ApplyMod(f[n - 1], mods[n])
<1> DEFINE N    == Len(mods)
           D    == Template
           turn == [p \in (1..N) \X D |-> ApplyMod(p[2], mods[p[1]])]
           Rec(f) == f = [n \in 0..N |-> IF n = 0 THEN t ELSE ApplyMod(f[n - 1], mods[n])]
<1>1. N \in Nat /\ t \in D /\ \A n \in 1..N : mods[n] \in Mod
  OBVIOUS
<1>2. turn \in [(1..N) \X D -> D]
  <2>1. \A u \in D, mod \in Mod : ApplyMod(u, mod) \in D
    BY ModApplied
  <2> HIDE DEF D
  <2> QED
    BY <1>1, <2>1
<1>3. \A n \in 1..N, u \in D : turn[<<n, u>>] = ApplyMod(u, mods[n])
  OBVIOUS
<1>4. \E f : Rec(f)
  <2> HIDE DEF turn, D, N
  <2>1. PICK f : Accumulates(f, N, D, t, turn)
    BY <1>1, <1>2, Accumulator
  <2>2. /\ f \in [0..N -> D] /\ f[0] = t
        /\ \A n \in 1..N : f[n - 1] \in D /\ f[n] = turn[<<n, f[n - 1]>>]
    BY <1>1, <2>1 DEF Accumulates
  <2>3. \A n \in 1..N : f[n] = ApplyMod(f[n - 1], mods[n])
    BY <1>3, <2>2
  <2>4. Rec(f)
    BY <1>1, <2>2, <2>3
  <2> QED
    BY <2>4
<1>5. PICK f : Rec(f) /\ Apply1(mods, t) = f[N]
  <2> HIDE DEF turn
  <2> QED
    BY <1>4 DEF Apply1
<1>6. f[0] = t /\ \A n \in 1..N : f[n] = ApplyMod(f[n - 1], mods[n])
  <2> HIDE DEF turn, N
  <2> QED
    BY <1>1, <1>5
<1> QED
  BY <1>5, <1>6

(* Column c of u is what the last of the first n mods for c gives it, and  *)
(* that of t if there is none.                                             *)
LastWins(mods, n, t, u, c) ==
  \/ u[c] = t[c] /\ \A k \in 1..n : mods[k].col # c
  \/ \E k \in 1..n : /\ mods[k].col = c
                     /\ u[c] = mods[k].gen
                     /\ \A j \in (k + 1)..n : mods[j].col # c

(* What a list of mods makes of a template.                                *)
LEMMA ModsApplied ==
  ASSUME NEW mods \in Seq(Mod), NEW t \in Template
  PROVE  /\ Apply1(mods, t) \in Template
         /\ \A c \in Column : LastWins(mods, Len(mods), t, Apply1(mods, t), c)
<1> DEFINE N == Len(mods)
<1>0. N \in Nat /\ \A n \in 1..N : mods[n] \in Mod
  OBVIOUS
<1>1. PICK g : /\ Apply1(mods, t) = g[N]
               /\ g[0] = t
               /\ \A n \in 1..N : g[n] = ApplyMod(g[n - 1], mods[n])
  BY ApplyUnfolds
<1> HIDE DEF N
<1> DEFINE T == {n \in 0..N : g[n] \in Template /\ \A c \in Column : LastWins(mods, n, t, g[n], c)}
<1>2. 0 \in T
  <2>1. \A c \in Column : LastWins(mods, 0, t, t, c)
    BY DEF LastWins
  <2> QED
    BY <1>0, <1>1, <2>1
<1>3. ASSUME NEW n \in 1..N, n - 1 \in T PROVE n \in T
  <2> DEFINE u == g[n - 1]
             v == g[n]
             m == mods[n]
  <2>1. u \in Template /\ \A c \in Column : LastWins(mods, n - 1, t, u, c)
    BY <1>3
  <2>2. /\ v \in Template
        /\ m.col \in Column
        /\ v[m.col] = m.gen
        /\ \A c \in Column \ {m.col} : v[c] = u[c]
    <3>1. m \in Mod /\ v = ApplyMod(u, m)
      BY <1>0, <1>1
    <3> HIDE DEF u, v, m
    <3> QED
      BY <2>1, <3>1, ModApplied
  <2>3. n \in Nat /\ n \in 1..n /\ 1..n = (1..(n - 1)) \cup {n} /\ (n + 1)..n = {}
    BY <1>0
  <2> HIDE DEF u, v
  <2>4. ASSUME NEW c \in Column PROVE LastWins(mods, n, t, v, c)
    <3>1. CASE c = m.col
      BY <2>2, <2>3, <3>1 DEF LastWins
    <3>2. CASE c # m.col
      <4>1. v[c] = u[c] /\ m.col # c
        BY <2>2, <3>2
      <4>2. CASE u[c] = t[c] /\ \A k \in 1..(n - 1) : mods[k].col # c
        BY <2>3, <4>1, <4>2 DEF LastWins
      <4>3. ASSUME NEW k \in 1..(n - 1), mods[k].col = c, u[c] = mods[k].gen,
                   \A j \in (k + 1)..(n - 1) : mods[j].col # c
            PROVE  LastWins(mods, n, t, v, c)
        <5>1. \A j \in (k + 1)..n : mods[j].col # c
          <6>1. \A j \in (k + 1)..n : j \in (k + 1)..(n - 1) \/ j = n
            BY <2>3
          <6> QED
            BY <4>1, <4>3, <6>1
        <5>2. k \in 1..n
          BY <2>3
        <5> QED
          BY <4>1, <4>3, <5>1, <5>2 DEF LastWins
      <4> QED
        BY <2>1, <4>2, <4>3 DEF LastWins
    <3> QED
      BY <3>1, <3>2
  <2> QED
    BY <1>0, <2>2, <2>4 DEF v
<1>4. N \in T
  <2> HIDE DEF T
  <2>1. \A n \in 0..N : n \in T
    BY <1>0, <1>2, <1>3, TurnInduction
  <2> QED
    BY <1>0, <2>1
<1> QED
  BY <1>1, <1>4 DEF N

(* A mod is about a column.                                                *)
LEMMA ModColumn == \A m \in Mod : m.col \in Column
  BY DEF Mod

(* The template without mods.                                              *)
LEMMA NoModsType == NoMods \in Template /\ \A c \in Column : NoMods[c] = Unset
<1>1. \A c \in Column : NoMods[c] = Unset
  BY DEF NoMods
<1>2. NoMods \in [Column -> UNION {Domain[c] \cup {Unset, Random} : c \in Column}]
  BY DEF NoMods
<1> QED
  BY <1>1, <1>2 DEF Template

(* Every mod that RandomizeAllColumns makes is one.                        *)
LEMMA RandomizeType == RandomizeAllColumns \in Seq(Mod)
<1>1. Len(Columns) \in Nat /\ \A k \in 1..Len(Columns) : Columns[k] \in Column
  BY DEF Column, ToSet, Columns
<1>2. \A c \in Column : [col |-> c, gen |-> Random] \in Mod
  BY DEF Mod
<1> HIDE DEF Column
<1>3. \A k \in 1..Len(Columns) : [col |-> Columns[k], gen |-> Random] \in Mod
  BY <1>1, <1>2
<1> QED
  BY <1>1, <1>3 DEF RandomizeAllColumns

(* The caller's mods win over the base mods, and each over those before    *)
(* it.                                                                     *)
LEMMA NewTemplate ==
  ASSUME base \in Seq(Mod), NEW mods \in Seq(Mod)
  PROVE  /\ NewExchangeRate(mods) \in Template
         /\ \A c \in Column :
              LastWins(base \o mods, Len(base \o mods), NoMods, NewExchangeRate(mods), c)
<1> DEFINE b == Apply1(base, NoMods)
           t == Apply1(mods, b)
           all == base \o mods
           M == Len(base)
           N == Len(mods)
<1>1. b \in Template /\ \A c \in Column : LastWins(base, M, NoMods, b, c)
  BY NoModsType, ModsApplied
<1>2. t \in Template /\ \A c \in Column : LastWins(mods, N, b, t, c)
  <2> HIDE DEF b
  <2> QED
    BY <1>1, ModsApplied
<1>3. /\ M \in Nat /\ N \in Nat /\ Len(all) = M + N
      /\ \A k \in 1..M : all[k] = base[k]
      /\ \A k \in 1..N : all[M + k] = mods[k]
  OBVIOUS
<1>4. NewExchangeRate(mods) = t
  BY DEF NewExchangeRate
<1> HIDE DEF b, t, all, M, N
<1>5. ASSUME NEW c \in Column PROVE LastWins(all, M + N, NoMods, t, c)
  <2>1. ASSUME NEW k \in 1..N, mods[k].col = c, t[c] = mods[k].gen,
               \A j \in (k + 1)..N : mods[j].col # c
        PROVE  LastWins(all, M + N, NoMods, t, c)
    <3>1. M + k \in 1..(M + N) /\ all[M + k] = mods[k]
      BY <1>3
    <3>2. ASSUME NEW j \in (M + k + 1)..(M + N) PROVE all[j].col # c
      <4>1. j - M \in (k + 1)..N /\ j - M \in 1..N /\ M + (j - M) = j
        BY <1>3
      <4> QED
        BY <1>3, <2>1, <4>1
    <3> QED
      BY <2>1, <3>1, <3>2 DEF LastWins
  <2>2. CASE t[c] = b[c] /\ \A k \in 1..N : mods[k].col # c
    <3>1. ASSUME NEW j \in 1..(M + N), j > M PROVE all[j].col # c
      <4>1. j - M \in 1..N /\ M + (j - M) = j
        BY <1>3, <3>1
      <4> QED
        BY <1>3, <2>2, <4>1
    <3>2. CASE b[c] = NoMods[c] /\ \A k \in 1..M : base[k].col # c
      <4>1. \A j \in 1..(M + N) : all[j].col # c
        <5>1. \A j \in 1..(M + N) : j \in 1..M \/ j > M
          BY <1>3
        <5> QED
          BY <1>3, <3>1, <3>2, <5>1
      <4> QED
        BY <2>2, <3>2, <4>1 DEF LastWins
    <3>3. ASSUME NEW k \in 1..M, base[k].col = c, b[c] = base[k].gen,
                 \A j \in (k + 1)..M : base[j].col # c
          PROVE  LastWins(all, M + N, NoMods, t, c)
      <4>1. k \in 1..(M + N) /\ all[k] = base[k]
        BY <1>3
      <4>2. ASSUME NEW j \in (k + 1)..(M + N) PROVE all[j].col # c
        <5>1. j \in 1..(M + N) /\ (j > M \/ (j \in (k + 1)..M /\ j \in 1..M))
          BY <1>3
        <5> QED
          BY <1>3, <3>1, <3>3, <5>1
      <4> QED
        BY <2>2, <3>3, <4>1, <4>2 DEF LastWins
    <3> QED
      BY <1>1, <3>2, <3>3 DEF LastWins
  <2> QED
    BY <1>2, <2>1, <2>2 DEF LastWins
<1> QED
  BY <1>2, <1>3, <1>4, <1>5 DEF all, M, N

-----------------------------------------------------------------------------

(* The loop of SetColumns takes the columns one after the other.           *)
LEMMA SetColumnsUnfolds ==
  ASSUME NEW s
  PROVE  \E f : /\ SetColumns(s) = f[Len(Columns)]
                /\ f[0] = <<>>
                /\ \A n \in 1..Len(Columns) : f[n] = WithColumn(s, f[n - 1], Columns[n])
<1> DEFINE N    == Len(Columns)
           D    == Seq(Column)
           none == <<>>
           turn == [p \in (1..N) \X D |-> WithColumn(s, p[2], Columns[p[1]])]
           Rec(f) == f = [n \in 0..N |-> IF n = 0 THEN none
                                         ELSE WithColumn(s, f[n - 1], Columns[n])]
<1>1. N \in Nat /\ none \in D /\ \A n \in 1..N : Columns[n] \in Column
  BY DEF Column, ToSet, Columns
<1> HIDE DEF N
<1>2. turn \in [(1..N) \X D -> D]
  <2>1. \A r \in D, c \in Column : WithColumn(s, r, c) \in D
    BY DEF WithColumn
  <2> HIDE DEF D
  <2> QED
    BY <1>1, <2>1
<1>3. \A n \in 1..N, r \in D : turn[<<n, r>>] = WithColumn(s, r, Columns[n])
  OBVIOUS
<1>4. \E f : Rec(f)
  <2> HIDE DEF turn, D, N, none
  <2>1. PICK f : Accumulates(f, N, D, none, turn)
    BY <1>1, <1>2, Accumulator
  <2>2. /\ f \in [0..N -> D] /\ f[0] = none
        /\ \A n \in 1..N : f[n - 1] \in D /\ f[n] = turn[<<n, f[n - 1]>>]
    BY <1>1, <2>1 DEF Accumulates
  <2>3. \A n \in 1..N : f[n] = WithColumn(s, f[n - 1], Columns[n])
    BY <1>3, <2>2
  <2>4. Rec(f)
    BY <1>1, <2>2, <2>3
  <2> QED
    BY <2>4
<1>5. PICK f : Rec(f) /\ SetColumns(s) = f[N]
  <2> HIDE DEF turn
  <2> QED
    BY <1>4 DEF SetColumns, N
<1>6. f[0] = none /\ \A n \in 1..N : f[n] = WithColumn(s, f[n - 1], Columns[n])
  <2> HIDE DEF turn, N, none
  <2> QED
    BY <1>1, <1>5
<1> QED
  BY <1>5, <1>6 DEF N

(* r names those of the first n columns that are set.                      *)
NamesSet(s, n, r) ==
  {r[i] : i \in 1..Len(r)} = {c \in {Columns[k] : k \in 1..n} : IsSet(s, c)}

(* The columns SetColumns names are those that are set.                    *)
LEMMA SetColumnsFacts ==
  ASSUME NEW s
  PROVE  ToSet(SetColumns(s)) = {e[1] : e \in Expressions(s)}
<1> DEFINE N == Len(Columns)
           D == Seq(Column)
<1>0. /\ N \in Nat /\ <<>> \in D
      /\ \A n \in 1..N : Columns[n] \in Column
      /\ {Columns[k] : k \in 1..N} = Column
  BY DEF Column, ToSet, Columns
<1>1. PICK g : /\ SetColumns(s) = g[N]
               /\ g[0] = <<>>
               /\ \A n \in 1..N : g[n] = WithColumn(s, g[n - 1], Columns[n])
  BY SetColumnsUnfolds
<1> HIDE DEF N, D
<1> DEFINE T == {n \in 0..N : g[n] \in D /\ NamesSet(s, n, g[n])}
<1>2. 0 \in T
  <2>1. NamesSet(s, 0, <<>>)
    BY DEF NamesSet
  <2> QED
    BY <1>0, <1>1, <2>1
<1>3. ASSUME NEW n \in 1..N, n - 1 \in T PROVE n \in T
  <2> DEFINE r == g[n - 1]
             c == Columns[n]
  <2>1. r \in D /\ NamesSet(s, n - 1, r) /\ c \in Column /\ g[n] = WithColumn(s, r, c)
    BY <1>0, <1>1, <1>3
  <2>2. {Columns[k] : k \in 1..n} = {Columns[k] : k \in 1..(n - 1)} \cup {c}
    <3>1. n \in Nat /\ 1..n = (1..(n - 1)) \cup {n}
      BY <1>0
    <3> QED
      BY <3>1
  <2> HIDE DEF r, c, Columns
  <2>3. CASE IsSet(s, c)
    <3>1. g[n] = Append(r, c)
      BY <2>1, <2>3 DEF WithColumn
    <3>2. /\ Append(r, c) \in D
          /\ {Append(r, c)[i] : i \in 1..Len(Append(r, c))} = {r[i] : i \in 1..Len(r)} \cup {c}
      BY <2>1 DEF D
    <3>3. NamesSet(s, n, g[n])
      BY <2>1, <2>2, <2>3, <3>1, <3>2 DEF NamesSet
    <3>4. g[n] \in D
      BY <3>1, <3>2, Zenon
    <3>5. n \in 0..N
      BY <1>0
    <3> QED
      BY <3>3, <3>4, <3>5
  <2>4. CASE ~IsSet(s, c)
    <3>1. g[n] = r
      BY <2>1, <2>4 DEF WithColumn
    <3>2. NamesSet(s, n, g[n])
      BY <2>1, <2>2, <2>4, <3>1 DEF NamesSet
    <3> QED
      BY <1>0, <2>1, <3>1, <3>2
  <2> QED
    BY <2>3, <2>4
<1>4. N \in T
  <2> HIDE DEF T
  <2>1. \A n \in 0..N : n \in T
    BY <1>0, <1>2, <1>3, TurnInduction
  <2> QED
    BY <1>0, <2>1
<1>5. NamesSet(s, N, SetColumns(s))
  BY <1>1, <1>4
<1>6. {e[1] : e \in Expressions(s)} = {c \in Column : IsSet(s, c)}
  <2>1. \A e \in Expressions(s) : e[1] \in Column /\ IsSet(s, e[1])
    BY DEF Expressions
  <2>2. ASSUME NEW c \in Column, IsSet(s, c) PROVE \E e \in Expressions(s) : e[1] = c
    BY <2>2, AssignedOnce
  <2> QED
    BY <2>1, <2>2
<1>7. {SetColumns(s)[i] : i \in 1..Len(SetColumns(s))} = {c \in Column : IsSet(s, c)}
  BY <1>0, <1>5 DEF NamesSet
<1>8. SetColumns(s) \in D
  BY <1>1, <1>4
<1>9. DOMAIN SetColumns(s) = 1..Len(SetColumns(s))
  BY <1>8 DEF D
<1> QED
  BY <1>6, <1>7, <1>9 DEF ToSet

-----------------------------------------------------------------------------

(* Where the last mod for a column is.                                     *)
LastOf(all, c) == {k \in 1..Len(all) : /\ all[k].col = c
                                       /\ \A j \in (k + 1)..Len(all) : all[j].col # c}

(* The last mod for a column is the one template and factory go by.        *)
LEMMA LastIsUnique ==
  ASSUME NEW all \in Seq(Mod), NEW t, NEW c \in Column, LastWins(all, Len(all), NoMods, t, c)
  PROVE  {t[c]} = IF LastOf(all, c) = {} THEN {Unset} ELSE {all[k].gen : k \in LastOf(all, c)}
<1> DEFINE last == LastOf(all, c)
<1> USE DEF LastOf
<1>0. Len(all) \in Nat /\ NoMods[c] = Unset
  BY NoModsType
<1>1. CASE t[c] = NoMods[c] /\ \A k \in 1..Len(all) : all[k].col # c
  <2>1. last = {} /\ t[c] = Unset
    BY <1>0, <1>1
  <2> QED
    BY <2>1
<1>2. ASSUME NEW k \in 1..Len(all), all[k].col = c, t[c] = all[k].gen,
             \A j \in (k + 1)..Len(all) : all[j].col # c
      PROVE  {t[c]} = IF last = {} THEN {Unset} ELSE {all[n].gen : n \in last}
  <2>1. k \in last
    BY <1>2
  <2>2. ASSUME NEW n \in last PROVE n = k
    <3>1. n \in 1..Len(all) /\ all[n].col = c /\ \A j \in (n + 1)..Len(all) : all[j].col # c
      OBVIOUS
    <3>2. ~(n < k)
      <4> SUFFICES ASSUME n < k PROVE FALSE
        OBVIOUS
      <4>1. k \in (n + 1)..Len(all)
        BY <1>0, <3>1
      <4> QED
        BY <1>2, <3>1, <4>1
    <3>3. ~(k < n)
      <4> SUFFICES ASSUME k < n PROVE FALSE
        OBVIOUS
      <4>1. n \in (k + 1)..Len(all)
        BY <1>0, <3>1
      <4> QED
        BY <1>2, <3>1, <4>1
    <3> QED
      BY <1>0, <3>1, <3>2, <3>3
  <2>3. last = {k}
    BY <2>1, <2>2
  <2>4. {all[n].gen : n \in last} = {all[k].gen} /\ last # {}
    BY <2>3
  <2> QED
    BY <1>2, <2>4
<1> QED
  BY <1>1, <1>2 DEF LastWins

(* What Build makes of a template is what its setter makes of an empty     *)
(* object.                                                                 *)
LEMMA BuildIsOverwrite ==
  ASSUME NEW t \in Template, NEW d \in Draw
  PROVE  BuildObject(t, d) = Overwrite(BuildSetter(t, d), ZeroRow)
<1>1. ASSUME NEW c \in Column
      PROVE  BuildObject(t, d)[c] = Overwrite(BuildSetter(t, d), ZeroRow)[c]
  <2>1. /\ d[c] \in Domain[c] /\ Unset \notin Domain[c]
        /\ t[c] \in Domain[c] \cup {Unset, Random} /\ Random # Unset
    BY DrawFacts, DomainAssumption, RandomAssumption DEF Template
  <2>2. BuildSetter(t, d)[c] = Value(t, c, d)
    BY DEF BuildSetter
  <2>3. Value(t, c, d) = Unset <=> t[c] = Unset
    BY <2>1 DEF Value
  <2> QED
    BY <2>2, <2>3 DEF BuildObject, Overwrite, IsSet
<1> QED
  BY <1>1 DEF BuildObject, Overwrite

(* Whatever base mods there are.                                           *)
LEMMA TemplatesDoAgree == ASSUME base \in Seq(Mod) PROVE TemplatesAgree
<1> SUFFICES ASSUME NEW mods \in Recipes \cup {RandomizeAllColumns}
             PROVE
    LET t    == NewExchangeRate(mods)
        all  == base \o mods IN
    /\ \A c \in Column : {t[c]} = IF LastOf(all, c) = {} THEN {Unset}
                                   ELSE {all[k].gen : k \in LastOf(all, c)}
    /\ \A d \in Draw : /\ BuildObject(t, d) = Overwrite(BuildSetter(t, d), ZeroRow)
                       /\ MethodsAgree(BuildSetter(t, d))
  BY DEF TemplatesAgree, LastOf
<1> DEFINE t    == NewExchangeRate(mods)
           all  == base \o mods
<1>1. mods \in Seq(Mod)
  BY RandomizeType, RecipesAssumption
<1>2. t \in Template /\ \A c \in Column : LastWins(all, Len(all), NoMods, t, c)
  BY <1>1, NewTemplate
<1>3. all \in Seq(Mod)
  BY <1>1
<1> HIDE DEF t, all
<1>4. ASSUME NEW c \in Column
      PROVE  {t[c]} = IF LastOf(all, c) = {} THEN {Unset}
                                   ELSE {all[k].gen : k \in LastOf(all, c)}
  BY <1>2, <1>3, LastIsUnique
<1>5. ASSUME NEW d \in Draw
      PROVE  /\ BuildObject(t, d) = Overwrite(BuildSetter(t, d), ZeroRow)
             /\ MethodsAgree(BuildSetter(t, d))
  BY <1>2, BuildIsOverwrite, SetterMethodsAgree, SetColumnsFacts DEF MethodsAgree
<1> QED
  BY <1>4, <1>5 DEF t, all

-----------------------------------------------------------------------------

Item == [row : Object, same : BOOLEAN]

Many == [template : Template, left : Nat, made : Seq(StoredRow)]

(* Elements that are the held object contain what it contains.             *)
ItemsOK(S, o) == S \in Seq(Item) /\ \A k \in 1..Len(S) : S[k].same => S[k].row = o

RowsInv == \A i \in Stored : rows[i] \in StoredRow

ObjectsInv == held \in Object \cup {Nil} /\ ItemsOK(items, held)

CallsInv ==
  /\ base \in Seq(Mod)
  /\ many \in Many \cup {Nil}
  /\ err \in {"nil", "norows", "pkey", "key", "notnull", "syntax"}

(* The inductive invariant of table, objects and templates.                *)
ModelInv == KeyedInv /\ RowsInv /\ ObjectsInv /\ CallsInv

(* A slice of new objects.                                                 *)
LEMMA NewItems ==
  ASSUME NEW n \in Nat, NEW f, \A k \in 1..n : f[k] \in Object, NEW o
  PROVE  ItemsOK([k \in 1..n |-> [row |-> f[k], same |-> FALSE]], o)
<1> DEFINE S == [k \in 1..n |-> [row |-> f[k], same |-> FALSE]]
<1>1. ASSUME NEW k \in 1..n PROVE S[k] \in Item /\ ~S[k].same
  <2>1. \A r \in Object : [row |-> r, same |-> FALSE] \in Item /\ ~[row |-> r, same |-> FALSE].same
    BY DEF Item
  <2>2. f[k] \in Object /\ S[k] = [row |-> f[k], same |-> FALSE]
    OBVIOUS
  <2> HIDE DEF S
  <2> QED
    BY <2>1, <2>2
<1>2. DOMAIN S = 1..n /\ S = [k \in 1..n |-> S[k]]
  OBVIOUS
<1> HIDE DEF S
<1>3. S \in [1..n -> Item]
  BY <1>1, <1>2
<1>4. S \in Seq(Item) /\ Len(S) = n
  BY <1>3
<1>5. ItemsOK(S, o)
  BY <1>1, <1>4 DEF ItemsOK
<1> QED
  BY <1>5 DEF S

(* A slice in which no element is the held object any more.                *)
LEMMA ApartItems ==
  ASSUME NEW S \in Seq(Item), NEW o
  PROVE  /\ ItemsOK(Apart(S), o)
         /\ Len(Apart(S)) = Len(S)
         /\ \A k \in 1..Len(S) : Apart(S)[k].row = S[k].row /\ ~Apart(S)[k].same
<1> DEFINE A == Apart(S)
<1>0. Len(S) \in Nat /\ \A k \in 1..Len(S) : S[k] \in Item
  OBVIOUS
<1>1. ASSUME NEW k \in 1..Len(S) PROVE A[k] \in Item /\ A[k].row = S[k].row /\ ~A[k].same
  <2>1. \A x \in Item : LET y == [x EXCEPT !.same = FALSE] IN
          y \in Item /\ y.row = x.row /\ ~y.same
    BY DEF Item
  <2>2. A[k] = [S[k] EXCEPT !.same = FALSE]
    BY DEF Apart
  <2> HIDE DEF A
  <2> QED
    BY <1>0, <2>1, <2>2
<1>2. A = [k \in 1..Len(S) |-> A[k]]
  BY DEF Apart
<1> HIDE DEF A
<1>3. A \in [1..Len(S) -> Item]
  BY <1>1, <1>2
<1>4. A \in Seq(Item) /\ Len(A) = Len(S)
  BY <1>0, <1>3
<1>5. ItemsOK(A, o)
  BY <1>1, <1>4 DEF ItemsOK
<1> QED
  BY <1>1, <1>4, <1>5 DEF A

(* What is assigned to the held object is seen through the slice.          *)
LEMMA AssignKeeps ==
  ASSUME ItemsOK(items, held), NEW row \in Object, Assign(row) PROVE ObjectsInv'
<1> DEFINE n == Len(items)
<1>0. n \in Nat /\ (\A k \in 1..n : items[k] \in Item) /\ held' = row
  BY DEF ItemsOK, Assign
<1>1. items' = [k \in 1..n |-> IF items[k].same THEN [items[k] EXCEPT !.row = row]
                               ELSE items[k]]
  BY DEF Assign
<1> HIDE DEF n
<1>2. ASSUME NEW k \in 1..n
      PROVE  items'[k] \in Item /\ (items'[k].same => items'[k].row = row)
  <2>1. \A x \in Item : LET y == [x EXCEPT !.row = row] IN
          y \in Item /\ y.row = row
    BY DEF Item
  <2>2. items'[k] = IF items[k].same THEN [items[k] EXCEPT !.row = row] ELSE items[k]
    BY <1>1
  <2>3. CASE items[k].same
    BY <1>0, <2>1, <2>2, <2>3
  <2>4. CASE ~items[k].same
    BY <1>0, <2>2, <2>4
  <2> QED
    BY <2>3, <2>4
<1>3. items' \in [1..n -> Item]
  BY <1>1, <1>2
<1>4. items' \in Seq(Item) /\ Len(items') = n
  BY <1>0, <1>3
<1> QED
  BY <1>0, <1>2, <1>4 DEF ObjectsInv, ItemsOK

(* copyMatchingRows keeps the length and what each element stands for.     *)
LEMMA CopyKeeps ==
  ASSUME NEW S, NEW o, ItemsOK(S, o), NEW from \in SUBSET StoredRow
  PROVE  /\ ItemsOK(copyMatchingRows(S, from), o)
         /\ Len(copyMatchingRows(S, from)) = Len(S)
         /\ \A k \in 1..Len(S) :
              LET e == copyMatchingRows(S, from)[k] IN
              \/ e.row \in from /\ e.row.id = S[k].row.id
              \/ e = S[k] /\ \A r \in from : r.id # S[k].row.id
<1> DEFINE C == copyMatchingRows(S, from)
           n == Len(S)
<1>0. n \in Nat /\ \A k \in 1..n : S[k] \in Item /\ (S[k].same => S[k].row = o)
  BY DEF ItemsOK
<1>1. C = [k \in 1..n |-> IF \E r \in from : r.id = S[k].row.id
                          THEN [row |-> CHOOSE r \in from : r.id = S[k].row.id, same |-> FALSE]
                          ELSE S[k]]
  BY DEF copyMatchingRows
<1> HIDE DEF C, n
<1>2. ASSUME NEW k \in 1..n
      PROVE  /\ C[k] \in Item
             /\ C[k].same => C[k].row = o
             /\ \/ C[k].row \in from /\ C[k].row.id = S[k].row.id
                \/ C[k] = S[k] /\ \A r \in from : r.id # S[k].row.id
  <2>1. CASE \A r \in from : r.id # S[k].row.id
    <3>1. C[k] = S[k]
      BY <1>1, <2>1
    <3> QED
      BY <1>0, <2>1, <3>1
  <2>2. CASE \E r \in from : r.id = S[k].row.id
    <3> DEFINE r == CHOOSE r \in from : r.id = S[k].row.id
    <3>1. r \in from /\ r.id = S[k].row.id
      BY <2>2
    <3>2. C[k] = [row |-> r, same |-> FALSE]
      BY <1>1, <2>2
    <3>3. r \in Object
      BY <3>1, RowFacts
    <3> HIDE DEF r
    <3>4. [row |-> r, same |-> FALSE] \in Item
      BY <3>3 DEF Item
    <3>5. C[k].row = r /\ C[k].same = FALSE
      BY <3>2
    <3> QED
      BY <3>1, <3>2, <3>4, <3>5
  <2> QED
    BY <2>1, <2>2
<1>3. C \in [1..n -> Item]
  BY <1>1, <1>2
<1>4. C \in Seq(Item) /\ Len(C) = n
  BY <1>0, <1>3
<1>5. ItemsOK(C, o)
  BY <1>2, <1>4 DEF ItemsOK
<1> QED
  BY <1>2, <1>4, <1>5 DEF C, n

(* A table made of rows holds rows.                                        *)
LEMMA TableOfRows ==
  ASSUME NEW R \in SUBSET StoredRow, NEW i \in Id, TableOf(R)[i] # NoRow
  PROVE  TableOf(R)[i] \in StoredRow
  BY DEF TableOf

(* An UPDATE leaves rows.                                                  *)
LEMMA UpdatedRows ==
  ASSUME RowsInv, NEW ids \in SUBSET Stored, NEW s \in Setters
  PROVE  /\ {Updated(ids, s)[i] : i \in Stored} \subseteq StoredRow
         /\ {Assigned(Expressions(s), rows[i]) : i \in ids} \subseteq StoredRow
<1>1. \A i \in Stored : Assigned(Expressions(s), rows[i]) \in StoredRow
  BY AssignedType DEF RowsInv
<1>2. \A i \in Stored : Updated(ids, s)[i] \in StoredRow
  BY <1>1 DEF Updated, RowsInv
<1> QED
  BY <1>1, <1>2

LEMMA RowsUpdate ==
  ASSUME RowsInv, NEW ids \in SUBSET Stored, NEW s \in Setters, UpdateRows(ids, s)
  PROVE  RowsInv'
<1> DEFINE R == {Updated(ids, s)[i] : i \in Stored}
<1>1. R \subseteq StoredRow /\ rows' = TableOf(R)
  BY UpdatedRows DEF UpdateRows
<1> HIDE DEF R
<1>2. ASSUME NEW i \in Id, rows'[i] # NoRow PROVE rows'[i] \in StoredRow
  BY <1>1, <1>2, TableOfRows
<1> QED
  BY <1>2 DEF RowsInv, Stored

LEMMA RowsInsert ==
  ASSUME KeyedInv, RowsInv, NEW row \in StoredRow, Insert(row)
  PROVE  RowsInv' /\ row.id \in Id /\ rows'[row.id] = row
<1>1. row.id \in Id
  BY RowFacts
<1>2. rows' = [i \in Id |-> IF i = row.id THEN row ELSE rows[i]]
  BY DEF Insert, KeyedInv
<1> QED
  BY <1>1, <1>2 DEF RowsInv, Stored

LEMMA RowsFewer ==
  ASSUME RowsInv, \A i \in Id : rows'[i] \in {rows[i], NoRow} PROVE RowsInv'
  BY DEF RowsInv, Stored

-----------------------------------------------------------------------------

(* The rows of a table are finitely many, and every slice All may return   *)
(* of them is one.                                                         *)
LEMMA AllRows ==
  ASSUME RowsInv, NEW s \in SetToSeqs(StoredRows), NEW o
  PROVE  ItemsOK([k \in 1..Len(s) |-> [row |-> s[k], same |-> FALSE]], o)
<1> DEFINE f == [i \in Stored |-> rows[i]]
<1>1. IsFiniteSet(Stored)
  BY IdAssumption, FS_Subset DEF Stored
<1>2. f \in Surjection(Stored, StoredRows)
  BY DEF Surjection, StoredRows
<1>3. IsFiniteSet(StoredRows)
  BY <1>1, <1>2, FS_Surjection
<1>4. Cardinality(StoredRows) \in Nat
  BY <1>3, FS_CardinalityType
<1>5. s \in [1..Cardinality(StoredRows) -> StoredRows]
  BY DEF SetToSeqs
<1>6. Len(s) \in Nat /\ \A k \in 1..Len(s) : s[k] \in StoredRows
  BY <1>4, <1>5
<1>7. \A k \in 1..Len(s) : s[k] \in Object
  BY <1>6, RowFacts DEF StoredRows, RowsInv
<1> QED
  BY <1>6, <1>7, NewItems

(* The caller takes an element.                                            *)
LEMMA TakeKeeps ==
  ASSUME ItemsOK(items, held), NEW k, TakeItem(k) PROVE ObjectsInv'
<1> DEFINE A == Apart(items)
<1>1. /\ items \in Seq(Item) /\ Len(items) \in Nat
      /\ k \in 1..Len(items) /\ items[k] \in Item
      /\ held' = items[k].row
      /\ items' = [A EXCEPT ![k].same = TRUE]
  BY DEF ItemsOK, TakeItem
<1>2. /\ A \in Seq(Item) /\ Len(A) = Len(items)
      /\ \A j \in 1..Len(items) : A[j] \in Item /\ A[j].row = items[j].row /\ ~A[j].same
  <2>1. /\ ItemsOK(A, held) /\ Len(A) = Len(items)
        /\ \A j \in 1..Len(items) : A[j].row = items[j].row /\ ~A[j].same
    BY <1>1, ApartItems
  <2> HIDE DEF A
  <2> QED
    BY <1>1, <2>1 DEF ItemsOK
<1>3. held' \in Object
  BY <1>1 DEF Item
<1> HIDE DEF A
<1>4. items' = [j \in 1..Len(items) |-> IF j = k THEN [A[j] EXCEPT !.same = TRUE] ELSE A[j]]
  <2>1. A = [j \in 1..Len(items) |-> A[j]]
    BY <1>1, <1>2
  <2> QED
    BY <1>1, <2>1
<1>5. ASSUME NEW j \in 1..Len(items)
      PROVE  items'[j] \in Item /\ (items'[j].same => items'[j].row = held')
  <2>1. CASE j # k
    <3>1. items'[j] = A[j]
      BY <1>4, <2>1
    <3> QED
      BY <1>2, <3>1
  <2>2. CASE j = k
    <3>1. items'[j] = [A[j] EXCEPT !.same = TRUE]
      BY <1>4, <2>2
    <3>2. \A x \in Item : LET y == [x EXCEPT !.same = TRUE] IN y \in Item /\ y.row = x.row
      BY DEF Item
    <3>3. items'[j] \in Item /\ items'[j].row = A[j].row
      BY <1>2, <3>1, <3>2
    <3> QED
      BY <1>1, <1>2, <2>2, <3>3
  <2> QED
    BY <2>1, <2>2
<1>6. items' = [j \in 1..Len(items) |-> items'[j]]
  BY <1>4
<1>7. items' \in [1..Len(items) -> Item]
  BY <1>5, <1>6
<1>8. \A m \in Nat : \A f \in [1..m -> Item] : f \in Seq(Item) /\ Len(f) = m
  OBVIOUS
<1>9. items' \in Seq(Item) /\ Len(items') = Len(items)
  BY <1>1, <1>7, <1>8
<1> QED
  BY <1>3, <1>5, <1>9 DEF ObjectsInv, ItemsOK

(* What FindExchangeRate reads is an object.                               *)
LEMMA FindKeeps ==
  ASSUME RowsInv, ObjectsInv, NEW i \in Id, NEW cols, FindExchangeRate(i, cols)
  PROVE  ObjectsInv'
<1>1. CASE rows[i] = NoRow
  BY <1>1 DEF FindExchangeRate, ObjectsInv
<1>2. CASE rows[i] # NoRow
  <2>1. /\ held' = [c \in Column |-> IF cols = {} \/ c \in cols THEN rows[i][c] ELSE ZeroRow[c]]
        /\ items' = Apart(items)
    BY <1>2 DEF FindExchangeRate
  <2>2. \A c \in Column : rows[i][c] \in Domain[c]
    BY <1>2, RowFacts DEF RowsInv, Stored
  <2>3. /\ held' = [c \in Column |-> held'[c]]
        /\ \A c \in Column : held'[c] \in Domain[c] \cup {ZeroRow[c]}
    BY <2>1, <2>2
  <2>4. held' \in Object
    BY <2>3, MakesObject
  <2>5. ItemsOK(items', held')
    BY <2>1, ApartItems DEF ObjectsInv, ItemsOK
  <2> QED
    BY <2>4, <2>5 DEF ObjectsInv
<1> QED
  BY <1>1, <1>2

(* The row of an UPDATE that is made breaks no key: it is the one row of   *)
(* its id.                                                                 *)
LEMMA UpdatedIsFound ==
  ASSUME KeyedInv, RowsInv, NEW ids \in SUBSET Stored, NEW s \in Setters,
         UpdateError(ids, s) = "nil", UpdateRows(ids, s), NEW i \in ids
  PROVE  /\ Assigned(Expressions(s), rows[i]) \in StoredRow
         /\ rows'[Assigned(Expressions(s), rows[i]).id] = Assigned(Expressions(s), rows[i])
         /\ \A j \in ids :
              Assigned(Expressions(s), rows[j]).id = Assigned(Expressions(s), rows[i]).id => j = i
<1> DEFINE R == {Updated(ids, s)[j] : j \in Stored}
           u == Assigned(Expressions(s), rows[i])
<1>1. rows' = TableOf(R) /\ i \in Stored
  BY DEF UpdateRows
<1>2. /\ Updated(ids, s)[i] = u
      /\ \A j \in ids : Updated(ids, s)[j] = Assigned(Expressions(s), rows[j])
  BY <1>1 DEF Updated
<1>3. u \in StoredRow
  BY <1>1, AssignedType DEF RowsInv
<1>4. u.id \in Id
  BY <1>3, RowFacts
<1>5. ASSUME NEW j \in Stored, Updated(ids, s)[j].id = u.id PROVE j = i
  <2>1. ~Breaks(ids, s, PrimaryKey)
    BY DEF UpdateError
  <2> HIDE DEF u
  <2> QED
    BY <1>1, <1>2, <1>5, <2>1 DEF Breaks, Same, PrimaryKey
<1>6. u \in R /\ \A r \in R : r.id = u.id => r = u
  BY <1>1, <1>2, <1>5
<1> HIDE DEF R, u
<1>7. TableOf(R)[u.id] = CHOOSE r \in R : r.id = u.id
  BY <1>4, <1>6 DEF TableOf
<1>8. rows'[u.id] = u
  BY <1>1, <1>6, <1>7
<1>9. \A j \in ids : Assigned(Expressions(s), rows[j]).id = u.id => j = i
  BY <1>2, <1>5
<1> QED
  BY <1>3, <1>8, <1>9 DEF u

(* Update.                                                                 *)
LEMMA UpdateKeeps ==
  ASSUME KeyedInv, RowsInv, ObjectsInv, NEW s \in Setters, Update(s)
  PROVE  /\ RowsInv' /\ ObjectsInv'
         /\ err' = "nil" => held' = rows'[held'.id]
<1> DEFINE ids == {held.id} \cap Stored
           e   == UpdateError(ids, s)
           u   == Assigned(Expressions(s), rows[held.id])
<1>1. CASE e # "nil" \/ ids = {}
  <2>1. UNCHANGED <<rows, held, items>> /\ err' # "nil"
    BY <1>1 DEF Update, Returns
  <2> QED
    BY <2>1 DEF RowsInv, Stored, ObjectsInv
<1>2. CASE e = "nil" /\ ids # {}
  <2>1. UpdateRows(ids, s) /\ Assign(u)
    BY <1>2 DEF Update
  <2>2. held.id \in ids
    BY <1>2
  <2>3. ids \in SUBSET Stored
    OBVIOUS
  <2> HIDE DEF ids, e
  <2>4. u \in StoredRow /\ rows'[u.id] = u
    BY <1>2, <2>1, <2>2, <2>3, UpdatedIsFound DEF e
  <2>5. RowsInv'
    BY <2>1, <2>3, RowsUpdate
  <2>6. u \in Object
    BY <2>4, RowFacts
  <2> HIDE DEF u
  <2>7. ObjectsInv'
    BY <2>1, <2>6, AssignKeeps DEF ObjectsInv
  <2>8. held' = u
    BY <2>1 DEF Assign
  <2> QED
    BY <2>4, <2>5, <2>7, <2>8
<1> QED
  BY <1>1, <1>2

(* Reload.                                                                 *)
LEMMA ReloadKeeps ==
  ASSUME KeyedInv, RowsInv, ObjectsInv, Reload
  PROVE  /\ RowsInv' /\ ObjectsInv'
         /\ err' = "nil" => held' = rows'[held'.id]
<1>1. rows' = rows
  BY DEF Reload
<1>2. CASE held.id \notin Stored
  <2>1. UNCHANGED <<held, items>> /\ err' # "nil"
    BY <1>2 DEF Reload, Returns
  <2> QED
    BY <1>1, <2>1 DEF RowsInv, Stored, ObjectsInv
<1>3. CASE held.id \in Stored
  <2> DEFINE u == rows[held.id]
  <2>1. Assign(u) /\ u \in StoredRow /\ u.id = held.id
    BY <1>3 DEF Reload, RowsInv, KeyedInv
  <2>2. u \in Object /\ rows'[u.id] = u
    BY <1>1, <2>1, RowFacts
  <2> HIDE DEF u
  <2>3. held' = u /\ ObjectsInv'
    BY <2>1, <2>2, AssignKeeps DEF Assign, ObjectsInv
  <2> QED
    BY <1>1, <2>2, <2>3 DEF RowsInv, Stored
<1> QED
  BY <1>2, <1>3

(* A row that leaves its id leaves it empty: a statement after which the   *)
(* same ids have rows left every row of it under its id.                   *)
LEMMA UpdateMovesNone ==
  ASSUME KeyedInv, NEW ids \in SUBSET Stored, NEW s, UpdateRows(ids, s),
         Stored' = Stored, NEW i \in ids
  PROVE  \E r \in {Assigned(Expressions(s), rows[j]) : j \in ids} : r.id = i
<1> DEFINE R == {Updated(ids, s)[j] : j \in Stored}
<1>1. rows' = TableOf(R) /\ i \in Id /\ i \in Stored /\ rows'[i] # NoRow
  BY DEF UpdateRows, Stored
<1> HIDE DEF R
<1>2. \E r \in R : r.id = i
  BY <1>1 DEF TableOf
<1>3. PICK j \in Stored : Updated(ids, s)[j].id = i
  BY <1>2 DEF R
<1>4. CASE j \in ids
  <2>1. Updated(ids, s)[j] = Assigned(Expressions(s), rows[j])
    BY <1>4 DEF Updated
  <2> QED
    BY <1>3, <1>4, <2>1
<1>5. CASE j \notin ids
  <2>1. Updated(ids, s)[j] = rows[j]
    BY <1>5 DEF Updated
  <2> QED
    BY <1>3, <1>5, <2>1 DEF KeyedInv
<1> QED
  BY <1>4, <1>5

(* What the elements are after a statement of the slice that moved no row: *)
(* the rows of their ids, as far as there are rows.                        *)
FollowRows ==
  err' = "nil" /\ Stored' = Stored =>
    /\ Len(items') = Len(items)
    /\ \A k \in 1..Len(items) :
         items'[k].row = IF items[k].row.id \in Stored THEN rows'[items[k].row.id]
                         ELSE items[k].row

(* ReloadAll.                                                              *)
LEMMA ReloadAllKeeps ==
  ASSUME KeyedInv, RowsInv, ObjectsInv, ReloadAll
  PROVE  RowsInv' /\ ObjectsInv' /\ FollowRows
<1> DEFINE from == {rows[i] : i \in InSlice(items)}
<1>1. /\ items' = copyMatchingRows(items, from)
      /\ rows' = rows /\ held' = held
  BY DEF ReloadAll
<1>2. /\ InSlice(items) \subseteq Stored
      /\ \A i \in Stored : rows[i] \in StoredRow /\ rows[i].id = i
  BY DEF InSlice, RowsInv, KeyedInv
<1>3. from \in SUBSET StoredRow
  BY <1>2
<1>4. \A r \in from : r = rows[r.id] /\ r.id \in Stored
  BY <1>2
<1>5. \A k \in 1..Len(items) : items[k].row.id \in Stored => rows[items[k].row.id] \in from
  BY DEF InSlice, pkIN
<1> HIDE DEF from
<1>6. /\ ItemsOK(items', held) /\ Len(items') = Len(items)
      /\ \A k \in 1..Len(items) :
           \/ items'[k].row \in from /\ items'[k].row.id = items[k].row.id
           \/ items'[k] = items[k] /\ \A r \in from : r.id # items[k].row.id
  BY <1>1, <1>3, CopyKeeps DEF ObjectsInv
<1>7. RowsInv' /\ ObjectsInv'
  BY <1>1, <1>6 DEF RowsInv, Stored, ObjectsInv
<1>8. ASSUME NEW k \in 1..Len(items)
      PROVE  items'[k].row = IF items[k].row.id \in Stored THEN rows'[items[k].row.id]
                             ELSE items[k].row
  <2>1. CASE items'[k].row \in from /\ items'[k].row.id = items[k].row.id
    BY <1>1, <1>4, <2>1
  <2>2. CASE items'[k] = items[k] /\ \A r \in from : r.id # items[k].row.id
    <3>1. items[k].row.id \notin Stored
      BY <1>2, <1>5, <2>2
    <3> QED
      BY <2>2, <3>1
  <2> QED
    BY <1>6, <2>1, <2>2
<1> QED
  BY <1>6, <1>7, <1>8 DEF FollowRows

(* UpdateAll.                                                              *)
LEMMA UpdateAllKeeps ==
  ASSUME KeyedInv, RowsInv, ObjectsInv, NEW s \in Setters, UpdateAll(s)
  PROVE  RowsInv' /\ ObjectsInv' /\ FollowRows
<1> DEFINE ids  == InSlice(items)
           from == {Assigned(Expressions(s), rows[i]) : i \in ids}
<1>1. CASE /\ items = <<>> \/ UpdateError(ids, s) # "nil"
           /\ err' = (IF items = <<>> THEN "nil" ELSE UpdateError(ids, s))
           /\ UNCHANGED <<rows, held, items>>
  <2>1. err' = "nil" => Len(items) = 0 /\ Len(items') = Len(items)
    BY <1>1
  <2>2. err' = "nil" => \A k \in 1..Len(items) : FALSE
    BY <2>1
  <2> QED
    BY <1>1, <2>1, <2>2 DEF RowsInv, Stored, ObjectsInv, FollowRows
<1>2. CASE /\ UpdateError(ids, s) = "nil"
           /\ UpdateRows(ids, s)
           /\ items' = copyMatchingRows(items, from)
           /\ held' = held
  <2>1. ids \in SUBSET Stored
    BY DEF InSlice
  <2>2. RowsInv' /\ from \in SUBSET StoredRow
    BY <1>2, <2>1, RowsUpdate, UpdatedRows
  <2>3. /\ ItemsOK(items', held) /\ Len(items') = Len(items)
        /\ \A k \in 1..Len(items) :
             \/ items'[k].row \in from /\ items'[k].row.id = items[k].row.id
             \/ items'[k] = items[k] /\ \A r \in from : r.id # items[k].row.id
    <3> HIDE DEF from
    <3> QED
      BY <1>2, <2>2, CopyKeeps DEF ObjectsInv
  <2>4. \A r \in from : rows'[r.id] = r
    BY <1>2, <2>1, UpdatedIsFound
  <2>5. \A r \in from : r.id \in Stored'
    <3>1. \A r \in from : r.id \in Id /\ r # NoRow
      BY <2>2, RowFacts, NilAssumption
    <3> HIDE DEF from
    <3> QED
      BY <2>4, <3>1 DEF Stored
  <2>6. ASSUME Stored' = Stored, NEW k \in 1..Len(items), items[k].row.id \in Stored
        PROVE  \E r \in from : r.id = items[k].row.id
    <3>1. items[k].row.id \in ids
      BY <2>6 DEF InSlice, pkIN
    <3> DEFINE i == items[k].row.id
    <3> HIDE DEF ids, i
    <3>2. \E r \in {Assigned(Expressions(s), rows[j]) : j \in ids} : r.id = i
      BY <1>2, <2>1, <2>6, <3>1, UpdateMovesNone DEF i
    <3> QED
      BY <3>2 DEF i
  <2> HIDE DEF from
  <2>7. ASSUME Stored' = Stored, NEW k \in 1..Len(items)
        PROVE  items'[k].row = IF items[k].row.id \in Stored THEN rows'[items[k].row.id]
                               ELSE items[k].row
    BY <2>3, <2>4, <2>5, <2>6, <2>7
  <2>8. ObjectsInv'
    BY <1>2, <2>3 DEF ObjectsInv
  <2> QED
    BY <2>2, <2>3, <2>7, <2>8 DEF FollowRows
<1> QED
  BY <1>1, <1>2 DEF UpdateAll, Returns

(* Calls that leave the objects alone and change the table.                *)
LEMMA DeletesRows ==
  ASSUME KeyedInv, RowsInv, ObjectsInv, Delete \/ DeleteAll \/ \E i \in Id : OtherDeletes(i)
  PROVE  RowsInv' /\ UNCHANGED <<held, items>>
<1>1. CASE Delete
  <2>1. \A i \in Id : rows'[i] \in {rows[i], NoRow}
    BY <1>1 DEF Delete
  <2> QED
    BY <1>1, <2>1, RowsFewer DEF Delete
<1>2. CASE DeleteAll
  <2>1. \A i \in Id : rows'[i] \in {rows[i], NoRow}
    BY <1>2 DEF DeleteAll
  <2> QED
    BY <1>2, <2>1, RowsFewer DEF DeleteAll
<1>3. ASSUME NEW i \in Id, OtherDeletes(i) PROVE RowsInv' /\ UNCHANGED <<held, items>>
  <2>1. \A j \in Id : rows'[j] \in {rows[j], NoRow}
    BY <1>3 DEF OtherDeletes, KeyedInv
  <2> QED
    BY <1>3, <2>1, RowsFewer DEF OtherDeletes
<1> QED
  BY <1>1, <1>2, <1>3

-----------------------------------------------------------------------------

(* The two action properties, as what one step does.                       *)
Complete == op' \in {"create", "createmany"} => err' \in {"nil", "pkey", "key"}

Follows ==
  /\ op' \in {"update", "reload", "create"} /\ err' = "nil" => held' = rows'[held'.id]
  /\ op' \in {"updateall", "reloadall"} /\ err' = "nil" /\ Stored' = Stored =>
       /\ Len(items') = Len(items)
       /\ \A k \in 1..Len(items) :
            items'[k].row = IF items[k].row.id \in Stored THEN rows'[items[k].row.id]
                            ELSE items[k].row

CallOK == Complete /\ Follows

Errors == {"nil", "norows", "pkey", "key", "notnull", "syntax"}

(* What the other calls do is no matter of theirs.                         *)
LEMMA OtherCalls ==
  ASSUME op' \in {"find", "all", "take", "delete", "other", "base", "build", "buildmany",
                  "call", "return"}
  PROVE  CallOK
  BY DEF CallOK, Complete, Follows

(* Every call of the session and of the other one.                         *)
LEMMA SessionKeeps ==
  ASSUME KeyedInv, RowsInv, ObjectsInv, Session \/ Other
  PROVE  RowsInv' /\ ObjectsInv' /\ CallOK /\ err' \in Errors
<1>1. ASSUME NEW i \in Id, NEW cols, FindExchangeRate(i, cols)
      PROVE  RowsInv' /\ ObjectsInv' /\ CallOK /\ err' \in Errors
  <2>1. rows' = rows /\ op' = "find" /\ err' \in Errors
    BY <1>1 DEF FindExchangeRate, Returns, Errors
  <2>2. RowsInv'
    BY <2>1 DEF RowsInv, Stored
  <2> QED
    BY <1>1, <2>1, <2>2, FindKeeps, OtherCalls
<1>2. CASE All
  <2>1. rows' = rows /\ held' = held /\ op' = "all" /\ err' \in Errors
    BY <1>2 DEF All, Returns, Errors
  <2>2. PICK s \in SetToSeqs(StoredRows) :
               items' = [k \in 1..Len(s) |-> [row |-> s[k], same |-> FALSE]]
    BY <1>2 DEF All
  <2>3. ItemsOK(items', held)
    BY <2>2, AllRows
  <2>4. RowsInv' /\ ObjectsInv'
    BY <2>1, <2>3 DEF RowsInv, Stored, ObjectsInv
  <2> QED
    BY <2>1, <2>4, OtherCalls
<1>3. ASSUME NEW k, TakeItem(k)
      PROVE  RowsInv' /\ ObjectsInv' /\ CallOK /\ err' \in Errors
  <2>1. rows' = rows /\ op' = "take" /\ err' \in Errors
    BY <1>3 DEF TakeItem, Returns, Errors
  <2>2. RowsInv' /\ ObjectsInv'
    BY <1>3, <2>1, TakeKeeps DEF RowsInv, Stored, ObjectsInv
  <2> QED
    BY <2>1, <2>2, OtherCalls
<1>4. ASSUME NEW s \in Setters, Update(s)
      PROVE  RowsInv' /\ ObjectsInv' /\ CallOK /\ err' \in Errors
  <2>1. op' = "update" /\ err' \in Errors
    BY <1>4 DEF Update, UpdateError, Returns, Errors
  <2>2. RowsInv' /\ ObjectsInv' /\ (err' = "nil" => held' = rows'[held'.id])
    BY <1>4, UpdateKeeps
  <2> QED
    BY <2>1, <2>2 DEF CallOK, Complete, Follows
<1>5. CASE Reload
  <2>1. op' = "reload" /\ err' \in Errors
    BY <1>5 DEF Reload, Returns, Errors
  <2>2. RowsInv' /\ ObjectsInv' /\ (err' = "nil" => held' = rows'[held'.id])
    BY <1>5, ReloadKeeps
  <2> QED
    BY <2>1, <2>2 DEF CallOK, Complete, Follows
<1>6. ASSUME NEW s \in Setters, UpdateAll(s)
      PROVE  RowsInv' /\ ObjectsInv' /\ CallOK /\ err' \in Errors
  <2>1. op' = "updateall" /\ err' \in Errors
    BY <1>6 DEF UpdateAll, UpdateError, Returns, Errors
  <2>2. RowsInv' /\ ObjectsInv' /\ FollowRows
    BY <1>6, UpdateAllKeeps
  <2> QED
    BY <2>1, <2>2 DEF CallOK, Complete, Follows, FollowRows
<1>7. CASE ReloadAll
  <2>1. op' = "reloadall" /\ err' \in Errors
    BY <1>7 DEF ReloadAll, Returns, Errors
  <2>2. RowsInv' /\ ObjectsInv' /\ FollowRows
    BY <1>7, ReloadAllKeeps
  <2> QED
    BY <2>1, <2>2 DEF CallOK, Complete, Follows, FollowRows
<1>8. CASE Delete \/ DeleteAll \/ \E i \in Id : OtherDeletes(i)
  <2>1. op' \in {"delete", "deleteall", "other"} /\ err' \in Errors
    BY <1>8 DEF Delete, DeleteAll, OtherDeletes, Returns, Errors
  <2>2. RowsInv' /\ held' = held /\ items' = items
    BY <1>8, DeletesRows
  <2>3. ObjectsInv'
    BY <2>2 DEF ObjectsInv
  <2>4. CallOK
    BY <2>1, <2>2 DEF CallOK, Complete, Follows
  <2> QED
    BY <2>1, <2>2, <2>3, <2>4
<1>9. ASSUME NEW i \in Id, NEW s \in Setters, OtherUpdates(i, s)
      PROVE  RowsInv' /\ ObjectsInv' /\ CallOK /\ err' \in Errors
  <2>1. /\ {i} \in SUBSET Stored /\ UpdateRows({i}, s)
        /\ held' = held /\ items' = items
        /\ op' = "other" /\ err' \in Errors
    BY <1>9 DEF OtherUpdates, Returns, Errors
  <2>2. RowsInv'
    BY <2>1, RowsUpdate
  <2>3. ObjectsInv'
    BY <2>1 DEF ObjectsInv
  <2> QED
    BY <2>1, <2>2, <2>3, OtherCalls
<1> QED
  BY <1>1, <1>2, <1>3, <1>4, <1>5, <1>6, <1>7, <1>8, <1>9 DEF Session, Other

(* The INSERT of a template.                                               *)
LEMMA CreateKeeps ==
  ASSUME KeyedInv, RowsInv, ObjectsInv, NEW t \in Template, Create(t)
  PROVE  RowsInv' /\ ObjectsInv' /\ CallOK /\ err' \in Errors
<1>1. PICK d \in Draw :
        LET row == ToInsert(t, d)
            e   == InsertError(row) IN
        /\ Returns("create", e)
        /\ IF e = "nil" THEN Insert(row) /\ held' = row /\ items' = Apart(items)
                        ELSE UNCHANGED <<rows, held, items>>
  BY DEF Create
<1> DEFINE row == ToInsert(t, d)
<1>2. row \in StoredRow /\ InsertError(row) \in {"nil", "pkey", "key"}
  BY InsertType, CreatedRowsAreComplete
<1>3. op' = "create" /\ err' = InsertError(row)
  BY <1>1 DEF Returns
<1>4. \/ InsertError(row) = "nil" /\ Insert(row) /\ held' = row /\ items' = Apart(items)
      \/ InsertError(row) # "nil" /\ UNCHANGED <<rows, held, items>>
  BY <1>1
<1> HIDE DEF row
<1>5. Complete /\ err' \in Errors
  BY <1>2, <1>3 DEF Complete, Errors
<1>6. CASE InsertError(row) = "nil" /\ Insert(row) /\ held' = row /\ items' = Apart(items)
  <2>1. RowsInv' /\ rows'[row.id] = row
    BY <1>2, <1>6, RowsInsert
  <2>2. row \in Object /\ ItemsOK(items', row)
    BY <1>2, <1>6, RowFacts, ApartItems DEF ObjectsInv, ItemsOK
  <2>3. ObjectsInv'
    BY <1>6, <2>2 DEF ObjectsInv
  <2> QED
    BY <1>3, <1>5, <1>6, <2>1, <2>3 DEF CallOK, Follows
<1>7. CASE InsertError(row) # "nil" /\ UNCHANGED <<rows, held, items>>
  BY <1>3, <1>5, <1>7 DEF RowsInv, Stored, ObjectsInv, CallOK, Follows
<1> QED
  BY <1>4, <1>6, <1>7

(* One statement of CreateMany.                                            *)
LEMMA CreateManyKeeps ==
  ASSUME KeyedInv, RowsInv, ObjectsInv, CallsInv, CreateManyGoesOn
  PROVE  RowsInv' /\ ObjectsInv' /\ CallsInv' /\ CallOK
<1>1. PICK d \in Draw :
        LET row == ToInsert(many.template, d)
            e   == InsertError(row) IN
        /\ Returns("createmany", e)
        /\ IF e = "nil"
           THEN /\ Insert(row)
                /\ many' = [many EXCEPT !.left = @ - 1, !.made = Append(@, row)]
                /\ UNCHANGED items
           ELSE /\ many' = Nil
                /\ items' = <<>>
                /\ UNCHANGED rows
  BY DEF CreateManyGoesOn
<1>2. many \in Many /\ many.left > 0 /\ held' = held /\ base' = base
  BY DEF CreateManyGoesOn, CallsInv
<1>3. many.template \in Template /\ many.left \in Nat /\ many.made \in Seq(StoredRow)
  BY <1>2 DEF Many
<1> DEFINE row == ToInsert(many.template, d)
<1>4. row \in StoredRow /\ InsertError(row) \in {"nil", "pkey", "key"}
  BY <1>3, InsertType, CreatedRowsAreComplete
<1>5. op' = "createmany" /\ err' = InsertError(row)
  BY <1>1 DEF Returns
<1>6. \/ /\ InsertError(row) = "nil" /\ Insert(row)
         /\ many' = [many EXCEPT !.left = @ - 1, !.made = Append(@, row)]
         /\ items' = items
      \/ many' = Nil /\ items' = <<>> /\ rows' = rows
  BY <1>1
<1> HIDE DEF row
<1>7. CallOK
  BY <1>4, <1>5 DEF CallOK, Complete, Follows
<1>8. err' \in Errors
  BY <1>4, <1>5 DEF Errors
<1>9. CASE /\ InsertError(row) = "nil" /\ Insert(row)
           /\ many' = [many EXCEPT !.left = @ - 1, !.made = Append(@, row)]
           /\ items' = items
  <2>1. RowsInv'
    BY <1>4, <1>9, RowsInsert
  <2>2. many' \in Many
    <3>1. many.left - 1 \in Nat /\ Append(many.made, row) \in Seq(StoredRow)
      BY <1>2, <1>3, <1>4
    <3> QED
      BY <1>2, <1>9, <3>1 DEF Many
  <2> QED
    BY <1>2, <1>7, <1>8, <1>9, <2>1, <2>2 DEF ObjectsInv, CallsInv, Errors
<1>10. CASE many' = Nil /\ items' = <<>> /\ rows' = rows
  <2>1. ItemsOK(items', held)
    BY <1>10 DEF ItemsOK
  <2> QED
    BY <1>2, <1>7, <1>8, <1>10, <2>1 DEF RowsInv, Stored, ObjectsInv, CallsInv, Errors
<1> QED
  BY <1>6, <1>9, <1>10

(* The calls of the factory that make no statement.                        *)
LEMMA FactoryKeeps ==
  ASSUME RowsInv, ObjectsInv, CallsInv, NEW mods \in Seq(Mod), NEW n \in Nat,
         \/ AddBaseExchangeRateMod(mods) \/ ClearBaseExchangeRateMods \/ Build(mods)
         \/ BuildMany(mods, n) \/ CreateMany(mods, n) \/ CreateManyReturns
  PROVE  RowsInv' /\ ObjectsInv' /\ CallsInv' /\ CallOK
<1>1. rows' = rows /\ RowsInv'
  BY DEF AddBaseExchangeRateMod, ClearBaseExchangeRateMods, Build, BuildMany, CreateMany,
         CreateManyReturns, RowsInv, Stored, factoryVars
<1>2. CallOK /\ err' \in Errors
  BY OtherCalls DEF AddBaseExchangeRateMod, ClearBaseExchangeRateMods, Build, BuildMany,
     CreateMany, CreateManyReturns, Returns, Errors
<1>3. mods \in Seq(Mod) /\ n \in Nat /\ base \in Seq(Mod) /\ many \in Many \cup {Nil}
  BY DEF CallsInv
<1>4. NewExchangeRate(mods) \in Template
  BY <1>3, NewTemplate
<1>5. CASE AddBaseExchangeRateMod(mods) \/ ClearBaseExchangeRateMods
  <2>1. base' = base \o mods \/ base' = <<>>
    BY <1>5 DEF AddBaseExchangeRateMod, ClearBaseExchangeRateMods
  <2>2. base \o mods \in Seq(Mod) /\ <<>> \in Seq(Mod)
    BY <1>3
  <2>3. base' \in Seq(Mod)
    BY <2>1, <2>2
  <2>4. UNCHANGED <<held, items, many>>
    BY <1>5 DEF AddBaseExchangeRateMod, ClearBaseExchangeRateMods
  <2> QED
    BY <1>1, <1>2, <1>3, <2>3, <2>4 DEF ObjectsInv, CallsInv, Errors
<1>6. CASE Build(mods)
  <2>1. PICK d \in Draw : held' = BuildObject(NewExchangeRate(mods), d)
    BY <1>6 DEF Build
  <2>2. held' \in Object
    BY <1>4, <2>1, BuildType
  <2>3. items' = Apart(items) /\ UNCHANGED <<base, many>>
    BY <1>6 DEF Build, factoryVars
  <2>4. ItemsOK(items', held')
    BY <2>3, ApartItems DEF ObjectsInv, ItemsOK
  <2> QED
    BY <1>1, <1>2, <1>3, <2>2, <2>3, <2>4 DEF ObjectsInv, CallsInv, Errors
<1>7. CASE BuildMany(mods, n)
  <2> DEFINE Built(ds) == [k \in 1..n |-> BuildObject(NewExchangeRate(mods), ds[k])]
  <2>1. PICK ds \in [1..n -> Draw] :
          items' = [k \in 1..n |-> [row  |-> BuildObject(NewExchangeRate(mods), ds[k]),
                                    same |-> FALSE]]
    BY <1>7 DEF BuildMany
  <2>2. \A k \in 1..n : BuildObject(NewExchangeRate(mods), ds[k]) \in Object
    BY <1>4, <2>1, BuildType
  <2>3. /\ \A k \in 1..n : Built(ds)[k] \in Object
        /\ items' = [k \in 1..n |-> [row |-> Built(ds)[k], same |-> FALSE]]
    BY <2>1, <2>2
  <2>4. held' = held /\ UNCHANGED <<base, many>>
    BY <1>7 DEF BuildMany, factoryVars
  <2> HIDE DEF Built
  <2>5. ItemsOK(items', held)
    BY <1>3, <2>3, NewItems
  <2> QED
    BY <1>1, <1>2, <1>3, <2>4, <2>5 DEF ObjectsInv, CallsInv, Errors
<1>8. CASE CreateMany(mods, n)
  <2>1. /\ many' = [template |-> NewExchangeRate(mods), left |-> n, made |-> <<>>]
        /\ UNCHANGED <<held, items, base>>
    BY <1>8 DEF CreateMany
  <2>2. \A t \in Template, m \in Seq(StoredRow) : [template |-> t, left |-> n, made |-> m] \in Many
    BY <1>3 DEF Many
  <2>3. <<>> \in Seq(StoredRow)
    OBVIOUS
  <2>4. many' \in Many
    BY <1>4, <2>1, <2>2, <2>3
  <2> QED
    BY <1>1, <1>2, <1>3, <2>1, <2>4 DEF ObjectsInv, CallsInv, Errors
<1>9. CASE CreateManyReturns
  <2>1. /\ many \in Many
        /\ items' = [k \in 1..Len(many.made) |-> [row |-> many.made[k], same |-> FALSE]]
        /\ many' = Nil
        /\ UNCHANGED <<held, base>>
    BY <1>3, <1>9 DEF CreateManyReturns
  <2>2. many.made \in Seq(StoredRow)
    BY <2>1 DEF Many
  <2>3. Len(many.made) \in Nat /\ \A k \in 1..Len(many.made) : many.made[k] \in StoredRow
    BY <2>2
  <2>4. ItemsOK(items', held)
    BY <2>1, <2>3, RowFacts, NewItems
  <2> QED
    BY <1>1, <1>2, <1>3, <2>1, <2>4 DEF ObjectsInv, CallsInv, Errors
<1> QED
  BY <1>5, <1>6, <1>7, <1>8, <1>9

(* An object that has a value for every column is a template of them.      *)
LEMMA ExistingType ==
  ASSUME ObjectsInv, CreateFromExisting PROVE FromExisting(held) \in Template
<1>1. held \in Row
  BY DEF CreateFromExisting
<1>2. /\ Column = {"id", "base_currency", "quote_currency", "rate", "effective_date",
                   "source", "source_published_at", "created_at"}
  BY DEF Column, Columns, ToSet
<1>3. held = [c \in Column |-> held[c]] /\ \A c \in Column : held[c] \in Domain[c]
  BY <1>1, <1>2 DEF Row, Id
<1>4. held \in [Column -> UNION {Domain[c] \cup {Unset, Random} : c \in Column}]
  BY <1>3
<1> QED
  BY <1>3, <1>4 DEF FromExisting, Template

(* Every step keeps the invariant, and does what a step may do.            *)
LEMMA ModelStep ==
  ASSUME ModelInv, [FactoryNext]_vars
  PROVE  ModelInv' /\ (UNCHANGED modelVars \/ CallOK)
<1>0. KeyedInv /\ RowsInv /\ ObjectsInv /\ CallsInv
  BY DEF ModelInv
<1>1. KeyedInv'
  BY <1>0, FactoryStep
<1>2. CASE UNCHANGED vars
  BY <1>0, <1>1, <1>2
     DEF vars, modelVars, factoryVars, ModelInv, RowsInv, Stored, ObjectsInv, CallsInv
<1>3. CASE (Session \/ Other) /\ UNCHANGED factoryVars
  <2>1. RowsInv' /\ ObjectsInv' /\ CallOK /\ err' \in Errors
    BY <1>0, <1>3, SessionKeeps
  <2> QED
    BY <1>0, <1>1, <1>3, <2>1 DEF ModelInv, CallsInv, Errors, factoryVars
<1>4. ASSUME NEW t \in Template, Create(t) PROVE ModelInv' /\ CallOK
  <2>1. RowsInv' /\ ObjectsInv' /\ CallOK /\ err' \in Errors
    BY <1>0, <1>4, CreateKeeps
  <2>2. UNCHANGED factoryVars
    BY <1>4 DEF Create
  <2> QED
    BY <1>0, <1>1, <2>1, <2>2 DEF ModelInv, CallsInv, Errors, factoryVars
<1>5. CASE CreateFromExisting
  <2>1. FromExisting(held) \in Template /\ Create(FromExisting(held))
    BY <1>0, <1>5, ExistingType DEF CreateFromExisting
  <2> QED
    BY <1>4, <2>1
<1>6. ASSUME NEW mods \in Recipes, Create(NewExchangeRate(mods)) PROVE ModelInv' /\ CallOK
  <2>1. NewExchangeRate(mods) \in Template
    BY <1>0, NewTemplate, RecipesAssumption DEF CallsInv
  <2> QED
    BY <1>4, <1>6, <2>1
<1>7. CASE CreateManyGoesOn
  BY <1>0, <1>1, <1>7, CreateManyKeeps DEF ModelInv
<1>8. ASSUME NEW mods \in Seq(Mod), NEW n \in Nat,
             \/ AddBaseExchangeRateMod(mods) \/ ClearBaseExchangeRateMods \/ Build(mods)
             \/ BuildMany(mods, n) \/ CreateMany(mods, n) \/ CreateManyReturns
      PROVE  ModelInv' /\ CallOK
  BY <1>0, <1>1, <1>8, FactoryKeeps DEF ModelInv
<1>9. ASSUME NEW mods \in Recipes,
             \/ AddBaseExchangeRateMod(mods) \/ Build(mods)
             \/ \E n \in Numbers : BuildMany(mods, n) \/ CreateMany(mods, n)
      PROVE  ModelInv' /\ CallOK
  <2>1. mods \in Seq(Mod) /\ Numbers \subseteq Nat /\ 0 \in Nat
    BY RecipesAssumption
  <2>2. CASE AddBaseExchangeRateMod(mods) \/ Build(mods)
    BY <1>8, <2>1, <2>2
  <2>3. ASSUME NEW n \in Numbers, BuildMany(mods, n) \/ CreateMany(mods, n)
        PROVE  ModelInv' /\ CallOK
    BY <1>8, <2>1, <2>3
  <2> QED
    BY <1>9, <2>2, <2>3
<1>10. CASE ClearBaseExchangeRateMods \/ CreateManyReturns
  <2>1. <<>> \in Seq(Mod) /\ 0 \in Nat
    OBVIOUS
  <2> QED
    BY <1>8, <1>10, <2>1
<1> QED
  BY <1>2, <1>3, <1>5, <1>6, <1>7, <1>9, <1>10 DEF FactoryNext

(* The inductive invariant.                                                *)
THEOREM ModelInvariant == FactorySpec => []ModelInv
<1>1. FactoryInit => ModelInv
  <2> SUFFICES ASSUME FactoryInit PROVE ModelInv
    OBVIOUS
  <2>1. KeyedInv /\ RowsInv
    BY DEF FactoryInit, ModelInit, KeyedInv, RowsInv, Stored
  <2>2. ItemsOK(items, held) /\ base \in Seq(Mod)
    BY DEF FactoryInit, ModelInit, ItemsOK
  <2> QED
    BY <2>1, <2>2 DEF FactoryInit, ModelInit, ModelInv, ObjectsInv, CallsInv
<1>2. ModelInv /\ [FactoryNext]_vars => ModelInv'
  BY ModelStep
<1> QED
  BY <1>1, <1>2, PTL DEF FactorySpec

(* Table, objects and slice have the types of the columns, also after a    *)
(* partial read and for an object that is in the slice                     *)
(* (bob/exchange_rates.bob.go:26-35, 434-450).                             *)
THEOREM ModelTypeCorrect == FactorySpec => []ModelTypeOK
<1>1. ASSUME ModelInv PROVE ModelTypeOK
  <2>1. KeyedInv /\ RowsInv /\ ObjectsInv /\ CallsInv
    BY <1>1 DEF ModelInv
  <2>2. DOMAIN rows = Id
    BY <2>1 DEF KeyedInv
  <2>3. \A i \in Stored : rows[i].id = i /\ \A c \in Column : rows[i][c] \in Domain[c]
    BY <2>1, RowFacts DEF KeyedInv, RowsInv
  <2>4. held # Nil => \A c \in Column : held[c] \in Domain[c] \cup {ZeroRow[c]}
    BY <2>1 DEF ObjectsInv, Object
  <2>5. ASSUME NEW k \in 1..Len(items), items[k].same PROVE held # Nil /\ items[k].row = held
    <3>1. items[k].row = held /\ items[k] \in Item
      BY <2>1, <2>5 DEF ObjectsInv, ItemsOK
    <3>2. held \in Object
      BY <3>1 DEF Item
    <3> QED
      BY <3>1, <3>2, NilAssumption
  <2> QED
    BY <2>1, <2>2, <2>3, <2>4, <2>5 DEF ModelTypeOK, CallsInv
<1> QED
  BY ModelInvariant, <1>1, PTL

(* Whatever base mods a factory has and whatever mods the caller adds, the *)
(* last mod for a column wins, Build and setter agree on what the template *)
(* means, and so do all methods of the setter                              *)
(* (factory/exchange_rates.bob.go:69-154, bobfactory_main.bob.go:28-38).   *)
THEOREM TemplatesAlwaysAgree == FactorySpec => []TemplatesAgree
<1>1. ModelInv => TemplatesAgree
  BY TemplatesDoAgree DEF ModelInv, CallsInv
<1> QED
  BY ModelInvariant, <1>1, PTL

(* However a template came about, from mods or from an object, an INSERT   *)
(* of it can only fail on a unique key                                     *)
(* (factory/exchange_rates.bob.go:169-217).                                *)
THEOREM CreatesAreComplete == FactorySpec => CreateIsComplete
<1>1. ASSUME ModelInv, [FactoryNext]_vars
      PROVE  [op' \in {"create", "createmany"} => err' \in {"nil", "pkey", "key"}]_modelVars
  BY <1>1, ModelStep DEF CallOK, Complete
<1> QED
  BY ModelInvariant, <1>1, PTL DEF FactorySpec, CreateIsComplete

(* After a call that returned no error the object it was made on is the    *)
(* row the table has, also where the statement gave it another id; and     *)
(* each element of a slice is the row of its id, unless the statement gave *)
(* a row of the slice another id (bob/exchange_rates.bob.go:342-371,       *)
(* 410-421, 509-540).                                                      *)
THEOREM ObjectsAreFresh == FactorySpec => ObjectsFollowRows
<1>1. ASSUME ModelInv, [FactoryNext]_vars
      PROVE  [ /\ op' \in {"update", "reload", "create"} /\ err' = "nil" => held' = rows'[held'.id]
               /\ op' \in {"updateall", "reloadall"} /\ err' = "nil" /\ Stored' = Stored =>
                    /\ Len(items') = Len(items)
                    /\ \A k \in 1..Len(items) :
                         items'[k].row = IF items[k].row.id \in Stored THEN rows'[items[k].row.id]
                                         ELSE items[k].row ]_modelVars
  BY <1>1, ModelStep DEF CallOK, Follows
<1> QED
  BY ModelInvariant, <1>1, PTL DEF FactorySpec, ObjectsFollowRows

=============================================================================
