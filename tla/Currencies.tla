------------------------------ MODULE Currencies ------------------------------
(***************************************************************************)
(* The lists of currencies: from SELECTED_CURRENCIES or the body of a      *)
(* request to the list FetchAndStore works on.                             *)
(*                                                                         *)
(* A name as somebody wrote it is its code, or Blank if nothing is left of *)
(* it, and its form: two names of one code may differ in case and blanks.  *)
(***************************************************************************)
EXTENDS Integers, Sequences, SequencesExt

CONSTANTS
  Code,       \* canonical codes
  Blank,      \* what strings.TrimSpace leaves of " "
  NoBody,     \* no list: the request has no body, or a body without one
  Defaults    \* entities.DefaultCurrencies

ASSUME CodeAssumption == Blank \notin Code /\ Defaults \in Seq(Code)

Form == {"tidy", "untidy"}
Name == [code : Code \cup {Blank}, form : Form]

AsWritten(codes) == [i \in 1..Len(codes) |-> [code |-> codes[i], form |-> "tidy"]]

(* strings.ToUpper(strings.TrimSpace(name)).                               *)
Tidy(n) == [n EXCEPT !.form = "tidy"]

(* One turn of the loop of splitCurrencies.                                *)
Split(result, n) == IF n.code = Blank THEN result ELSE Append(result, Tidy(n))

(* Config.Fetcher.Currencies: repetitions stay.                            *)
splitCurrencies(parts) ==
  LET result[n \in 0..Len(parts)] == IF n = 0 THEN <<>> ELSE Split(result[n - 1], parts[n])
  IN  result[Len(parts)]

(* Mutants of normalizeCurrencies: the last mention counts; a blank is a  *)
(* code.                                                                   *)
NormalizeFromTheEnd(names) ==
  FoldRight(LAMBDA n, result : IF n.code = Blank \/ Contains(result, n.code)
                               THEN result ELSE <<n.code>> \o result, names, <<>>)

NormalizeBlanks(names) ==
  FoldLeft(LAMBDA result, n : IF Contains(result, n.code) THEN result ELSE Append(result, n.code),
           <<>>, names)

(* One turn of the loop of normalizeCurrencies.                            *)
Mention(result, n) ==
  IF n.code = Blank \/ Contains(result, n.code) THEN result ELSE Append(result, n.code)

(* Each code once, in the order of first mention.                          *)
normalizeCurrencies(names) ==
  LET result[n \in 0..Len(names)] == IF n = 0 THEN <<>> ELSE Mention(result[n - 1], names[n])
  IN  result[Len(names)]

(* PostRatesFetch; runFetch is the case NoBody.                            *)
ChooseList(body, configured) ==
  IF body # NoBody /\ body # <<>> THEN body
  ELSE IF configured # <<>> THEN configured ELSE AsWritten(Defaults)

=============================================================================
