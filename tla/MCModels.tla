------------------------------- MODULE MCModels -------------------------------
(* RateFactory for TLC: two ids, and two values of the columns a statement *)
(* can tell apart.                                                         *)
EXTENDS RateFactory

MCDomain ==
  [c \in {"id", "base_currency", "quote_currency", "rate", "effective_date",
          "source", "source_published_at", "created_at"} |->
     CASE c \in {"id", "quote_currency"} -> 1..2
       [] c = "source_published_at"      -> {1, Null}
       [] OTHER                          -> {1}]

Sets(f) == [c \in DOMAIN MCDomain |-> IF c \in DOMAIN f THEN f[c] ELSE Unset]

MCSetters ==
  {Sets(<<>>), Sets([quote_currency |-> 2]), Sets([id |-> 2, source_published_at |-> Null])}

G(col, gen) == [col |-> col, gen |-> gen]

MCRecipes ==
  {<<>>, <<G("quote_currency", 2)>>, <<G("quote_currency", Unset), G("rate", Random)>>,
   <<G("id", 1), G("quote_currency", 1), G("source_published_at", Null)>>}

(* The last call and what it returned decide nothing that follows.         *)
MCView == <<rows, held, items, base, many>>
=============================================================================
