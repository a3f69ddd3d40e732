---------------------------- MODULE AtomicUpsert ----------------------------
(***************************************************************************)
(* What a caller of Repository.UpsertRates may rely on: a batch of rates   *)
(* is stored in one step, whole, or never; nil is returned only after it   *)
(* was stored.  An error promises nothing: the batch may have been stored, *)
(* or may still be, behind the caller's back.                              *)
(*                                                                         *)
(* A row of exchange_rates is found by its unique key (source, base, quote *)
(* currency and effective date).  Each call is told apart by the element   *)
(* of Tx it is, and a row says which call gave it its id and which gave it *)
(* its rate.                                                               *)
(***************************************************************************)
EXTENDS Integers, Sequences

CONSTANTS Tx, Key, Batches, NoRow

VARIABLES
  table,   \* per key, its row or NoRow
  batch,   \* per call, the keys of the rates it was given
  fate,    \* per call: "none" before it is made, then "open" until decided
  reply    \* per call, what it returned: "none", "ok", "error"

upsertVars == <<table, batch, fate, reply>>

Merge(t, row) == [id |-> IF row = NoRow THEN t ELSE row.id, rate |-> t]

Keys(t) == {batch[t][i] : i \in 1..Len(batch[t])}

Init ==
  /\ table = [k \in Key |-> NoRow]
  /\ batch = [t \in Tx |-> <<>>]
  /\ fate  = [t \in Tx |-> "none"]
  /\ reply = [t \in Tx |-> "none"]

Submit(t) ==
  /\ fate[t] = "none"
  /\ fate' = [fate EXCEPT ![t] = "open"]
  /\ \E b \in Batches : batch' = [batch EXCEPT ![t] = b]
  /\ UNCHANGED <<table, reply>>

(* The whole batch, at once: an absent row is inserted under the call's    *)
(* id, a present one keeps its id and takes the call's rate.               *)
Apply(t) ==
  /\ fate[t] = "open"
  /\ fate' = [fate EXCEPT ![t] = "committed"]
  /\ table' = [k \in Key |-> IF k \in Keys(t) THEN Merge(t, table[k]) ELSE table[k]]
  /\ UNCHANGED <<batch, reply>>

(* Calls given up, alone or together when the database restarts.           *)
Discard(T) ==
  /\ \A t \in T : fate[t] = "open"
  /\ fate' = [t \in Tx |-> IF t \in T THEN "aborted" ELSE fate[t]]
  /\ UNCHANGED <<table, batch>>

ReturnOk(t) ==
  /\ reply[t] = "none"
  /\ fate[t] = "committed"
  /\ reply' = [reply EXCEPT ![t] = "ok"]
  /\ UNCHANGED <<table, batch, fate>>

(* The step that returns an error may also be the one that gives the batch *)
(* up.                                                                     *)
ReturnError(t) ==
  /\ reply[t] = "none"
  /\ fate[t] # "none"
  /\ reply' = [reply EXCEPT ![t] = "error"]
  /\ fate' \in {fate, [fate EXCEPT ![t] = "aborted"]}
  /\ fate[t] = "committed" => fate' = fate
  /\ UNCHANGED <<table, batch>>

Next ==
  \/ \E t \in Tx : Submit(t) \/ Apply(t) \/ ReturnOk(t) \/ ReturnError(t)
  \/ \E T \in SUBSET Tx : Discard(T) /\ UNCHANGED reply

Spec == Init /\ [][Next]_upsertVars

=============================================================================
