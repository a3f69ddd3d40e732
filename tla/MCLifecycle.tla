----------------------------- MODULE MCLifecycle -----------------------------
(* Lifecycle for TLC: one input per way through the routes, and one        *)
(* environment per way through main.                                       *)
EXTENDS Lifecycle

CONSTANTS gbp, usd

MCCode     == {gbp, usd}
MCDefaults == <<usd>>

N(c, f) == [code |-> c, form |-> f]

Plain(route) == [route |-> route, html |-> FALSE, body |-> NoBody, three |-> TRUE,
                 unbound |-> "none"]
Posts(body)  == [Plain("fetch") EXCEPT !.body = body]

MCInputs ==
  {Plain(route) : route \in {"health", "root", "rates", "fetch", "history", "docs",
                             "docsroot", "other", "othermethod"}}
  \cup {[Plain("other") EXCEPT !.html = TRUE],
        [Plain("history") EXCEPT !.three = FALSE],
        [Plain("history") EXCEPT !.unbound = "path", !.three = FALSE],
        [Plain("history") EXCEPT !.unbound = "date"],
        [Plain("history") EXCEPT !.unbound = "limit", !.three = FALSE],
        Posts(Malformed), Posts(<<>>), Posts(<<N(Blank, "untidy")>>),
        Posts(<<N(gbp, "untidy"), N(usd, "tidy"), N(gbp, "tidy")>>)}

S(cmd, port, concurrency, limited, selected) ==
  [cmd |-> cmd, port |-> port, concurrency |-> concurrency, limited |-> limited,
   selected |-> selected]

MCSettings ==
  {S("serve", 8888, 4, TRUE, <<N(usd, "tidy"), N(Blank, "tidy"), N(usd, "untidy")>>),
   S("serve", 65535, 1, FALSE, <<N(Blank, "tidy")>>),
   S("serve", 0, 4, TRUE, <<>>), S("unknown", 8888, 0, TRUE, <<>>),
   S("unknown", 1, 4, TRUE, <<>>), S("fetch", 8888, 4, TRUE, <<>>),
   S("fetch", 65536, 4, TRUE, <<>>)}
=============================================================================
