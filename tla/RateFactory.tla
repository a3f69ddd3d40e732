------------------------------ MODULE RateFactory ------------------------------
(***************************************************************************)
(* The generated factory of exchange_rates (internal/db/bob/factory),      *)
(* which makes objects and rows for tests, beside the session of           *)
(* ExchangeRateModel.                                                      *)
(*                                                                         *)
(* A template holds per column a function: Unset (nil), one that returns a *)
(* value, or one that returns some value, Random.  Mods assign such        *)
(* functions.  CreateMany is a statement per row, outside any transaction  *)
(* of its own; the other calls are one statement or none.                  *)
(***************************************************************************)
EXTENDS ExchangeRateModel

CONSTANTS
  Recipes,  \* the lists of mods the session uses
  Numbers,  \* how many it asks CreateMany and BuildMany for
  MaxBase,  \* bound: base mods of the factory
  Random

VARIABLES
  base,     \* baseExchangeRateMods
  many      \* the CreateMany under way: template, rows left, objects made; or Nil

factoryVars == <<base, many>>
vars        == <<modelVars, factoryVars>>

Mod == UNION {[col : {c}, gen : Domain[c] \cup {Unset, Random}] : c \in Column}

ASSUME RecipesAssumption == Recipes \subseteq Seq(Mod) /\ Numbers \subseteq Nat

ASSUME RandomAssumption == Random # Unset

-----------------------------------------------------------------------------

(* What the random_* functions return, one value for each call there may   *)
(* be in a statement.  Never NULL, not even for source_published_at.       *)
Draw == {row \in Row : \A c \in Column : row[c] # Null}

RandomizeAllColumns == [k \in 1..Len(Columns) |-> [col |-> Columns[k], gen |-> Random]]

(* A mod, and the loop over the mods of a template.                        *)
ApplyMod(t, mod) == [t EXCEPT ![mod.col] = mod.gen]

Apply1(mods, t) ==
  LET o[n \in 0..Len(mods)] == IF n = 0 THEN t ELSE ApplyMod(o[n - 1], mods[n])
  IN  o[Len(mods)]

NoMods == [c \in Column |-> Unset]

(* Mutant of NewExchangeRate: the base mods come last.                     *)
NewBaseLast(mods)     == Apply1(base, Apply1(mods, NoMods))
NewExchangeRate(mods) == Apply1(mods, Apply1(base, NoMods))

(* FromExistingExchangeRate: every column as the object has it when the    *)
(* template is used.                                                       *)
FromExisting(object) == object

Value(t, c, d) == IF t[c] = Random THEN d[c] ELSE t[c]

BuildSetter(t, d) == [c \in Column |-> Value(t, c, d)]

(* The zero object with every column that has a function.                  *)
BuildObject(t, d) == [c \in Column |-> IF t[c] = Unset THEN ZeroRow[c] ELSE Value(t, c, d)]

(* Mutant of Required: source is forgotten.                                *)
RequiredButSource == {"id", "quote_currency", "rate", "effective_date"}
Required          == {"id", "quote_currency", "rate", "effective_date", "source"}

ensureCreatable(s, d) ==
  [c \in Column |-> IF c \in Required /\ ~IsSet(s, c) THEN d[c] ELSE s[c]]

ToInsert(t, d) == Apply(ensureCreatable(BuildSetter(t, d), d))

-----------------------------------------------------------------------------

FactoryInit == ModelInit /\ base = <<>> /\ many = Nil

Idle == many = Nil

AddBaseExchangeRateMod(mods) ==
  /\ Idle
  /\ Len(base) + Len(mods) <= MaxBase
  /\ base' = base \o mods
  /\ Returns("base", "nil")
  /\ UNCHANGED <<rows, held, items, many>>

ClearBaseExchangeRateMods ==
  /\ Idle
  /\ base' = <<>>
  /\ Returns("base", "nil")
  /\ UNCHANGED <<rows, held, items, many>>

Build(mods) ==
  /\ Idle
  /\ \E d \in Draw : held' = BuildObject(NewExchangeRate(mods), d)
  /\ items' = Apart(items)
  /\ Returns("build", "nil")
  /\ UNCHANGED <<rows, factoryVars>>

BuildMany(mods, n) ==
  /\ Idle
  /\ \E ds \in [1..n -> Draw] :
       items' = [k \in 1..n |-> [row  |-> BuildObject(NewExchangeRate(mods), ds[k]),
                                 same |-> FALSE]]
  /\ Returns("buildmany", "nil")
  /\ UNCHANGED <<rows, held, factoryVars>>

Insert(row) == rows' = [rows EXCEPT ![row.id] = row]

Create(t) ==
  /\ Idle
  /\ \E d \in Draw :
       LET row == ToInsert(t, d)
           e   == InsertError(row) IN
       /\ Returns("create", e)
       /\ IF e = "nil" THEN Insert(row) /\ held' = row /\ items' = Apart(items)
                       ELSE UNCHANGED <<rows, held, items>>
  /\ UNCHANGED factoryVars

(* The template does not know that its object may be stored already.       *)
CreateFromExisting ==
  /\ held \in Row
  /\ Create(FromExisting(held))

CreateMany(mods, n) ==
  /\ Idle
  /\ many' = [template |-> NewExchangeRate(mods), left |-> n, made |-> <<>>]
  /\ Returns("call", "nil")
  /\ UNCHANGED <<rows, held, items, base>>

(* The first error ends the call: no slice, and the rows before it stay.   *)
CreateManyGoesOn ==
  /\ many # Nil
  /\ many.left > 0
  /\ \E d \in Draw :
       LET row == ToInsert(many.template, d)
           e   == InsertError(row) IN
       /\ Returns("createmany", e)
       /\ IF e = "nil"
          THEN /\ Insert(row)
               /\ many' = [many EXCEPT !.left = @ - 1, !.made = Append(@, row)]
               /\ UNCHANGED items
          ELSE /\ many' = Nil
               /\ items' = <<>>
               /\ UNCHANGED rows
  /\ UNCHANGED <<held, base>>

CreateManyReturns ==
  /\ many # Nil
  /\ many.left = 0
  /\ items' = [k \in 1..Len(many.made) |-> [row |-> many.made[k], same |-> FALSE]]
  /\ many' = Nil
  /\ Returns("return", "nil")
  /\ UNCHANGED <<rows, held, base>>

FactoryNext ==
  \/ Idle /\ Session /\ UNCHANGED factoryVars
  \/ Other /\ UNCHANGED factoryVars
  \/ \E mods \in Recipes :
       \/ AddBaseExchangeRateMod(mods) \/ Build(mods) \/ Create(NewExchangeRate(mods))
       \/ \E n \in Numbers : BuildMany(mods, n) \/ CreateMany(mods, n)
  \/ ClearBaseExchangeRateMods \/ CreateFromExisting
  \/ CreateManyGoesOn \/ CreateManyReturns

FactorySpec == FactoryInit /\ [][FactoryNext]_vars

-----------------------------------------------------------------------------

(* Every way a template takes to the table or to an object gives the same  *)
(* columns the same values: the last mod for a column wins, the caller's   *)
(* over the factory's base mods, and what Build makes of the template is   *)
(* what its setter makes of an empty object, whichever method of the       *)
(* setter does it (factory/exchange_rates.bob.go:69-154,                   *)
(* bobfactory_main.bob.go:28-38, bob/exchange_rates.bob.go:107-286).       *)
TemplatesAgree ==
  \A mods \in Recipes \cup {RandomizeAllColumns} :
    LET t    == NewExchangeRate(mods)
        all  == base \o mods
        last(c) == {k \in 1..Len(all) : /\ all[k].col = c
                                        /\ \A j \in (k + 1)..Len(all) : all[j].col # c} IN
    /\ \A c \in Column : {t[c]} = IF last(c) = {} THEN {Unset} ELSE {all[k].gen : k \in last(c)}
    /\ \A d \in Draw : /\ BuildObject(t, d) = Overwrite(BuildSetter(t, d), ZeroRow)
                       /\ MethodsAgree(BuildSetter(t, d))

(* Create gives every column that has to have a value one, whatever the    *)
(* mods left out or unset: an INSERT can only fail on a unique key         *)
(* (factory/exchange_rates.bob.go:169-190 against the table of             *)
(* setup_schema.up.sql:5-16).                                              *)
CreateIsComplete ==
  [][op' \in {"create", "createmany"} => err' \in {"nil", "pkey", "key"}]_modelVars

=============================================================================
