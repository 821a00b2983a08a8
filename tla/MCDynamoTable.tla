--------------------------- MODULE MCDynamoTable ---------------------------
(* Finite instances of DynamoTable: two keys of one partition, a fresh and *)
(* an expired value.                                                       *)
EXTENDS DynamoTable, TLC

CONSTANTS c1, c2, k1, k2, pk, fresh, stale, a, b

MCPartOf == k1 :> pk @@ k2 :> pk

(* The key decides the index key: no two items share one. *)
MCOwnIndexKey == k1 :> (fresh :> a @@ stale :> NoIndex)
                 @@ k2 :> (fresh :> b @@ stale :> b)

Put(k, v, cond) == [key |-> k, to |-> v, cond |-> cond, update |-> FALSE]
Update(k, v) == [key |-> k, to |-> v, cond |-> "none", update |-> TRUE]
Delete(k) == [key |-> k, to |-> NoItem, cond |-> "none", update |-> FALSE]

MCRequests ==
    {Put(k1, fresh, "absent"), Put(k1, stale, "none"), Update(k2, fresh),
     Delete(k1), Delete(k2)}

(* Create k1 and remove k2 together; update k1 if k2 is there. *)
MCTransactions ==
    {[checks |-> {}, writes |-> <<Put(k1, fresh, "absent"), Delete(k2)>>],
     [checks |-> {k2}, writes |-> <<Update(k1, stale)>>]}

(* An empty table, and one that holds both items. *)
MCLoads ==
    {<<>>, <<[key |-> k1, val |-> fresh], [key |-> k2, val |-> stale]>>}

(* A table with one item: one lost increment and its partition counts 0.   *)
MCOneLoad == {<<[key |-> k1, val |-> fresh]>>}
=============================================================================
