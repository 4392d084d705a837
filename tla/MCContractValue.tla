--------------------------- MODULE MCContractValue ---------------------------
(* Every type of the contract, alone or in a list with null, an enum of     *)
(* numbers, a field that is optional, required or the key; the bounds are   *)
(* in the .cfg.                                                             *)
EXTENDS ContractValue

Roles == {[required |-> FALSE, key |-> FALSE], [required |-> TRUE, key |-> FALSE],
          [required |-> TRUE, key |-> TRUE]}
Types == {<<"string", f>> : f \in Formats} \cup {<<t, "none">> : t \in SchemaTypes}

MCSchemas ==
    {s \in {[type |-> t[1], format |-> t[2], list |-> l, enum |-> e,
             required |-> r.required, key |-> r.key] :
                t \in Types, l \in BOOLEAN, e \in {{}, {"n"}, {"rounded"}}, r \in Roles} :
        s.type = "untyped" => ~s.list}

MCRetries == {-1, 0, 2}
=============================================================================
