---------------------------- MODULE MCPriceBudget ----------------------------
(***************************************************************************)
(* Instances of PriceBudget for TLC: a global policy 1 and a vault policy  *)
(* 2 that a sync pass and a guarded operation of the vault come under,     *)
(* and a gateway request of another vault that only the global one covers. *)
(***************************************************************************)
EXTENDS PriceBudget, TLC

CONSTANTS rs, rt, rg, rw, rf

MCKind == [r \in Runs |-> CASE r \in {rs, rt} -> "sync" [] r = rg -> "guard"
                            [] r = rw -> "gateway" [] r = rf -> "fetch"]
MCApplies == [r \in Runs |-> IF r = rw THEN {1} ELSE Policies]

\* The two sync passes of one vault are interchangeable.
Passes == Permutations({rs, rt})

Limit(mode, run_, day, month) ==
    [mode |-> mode, per_run |-> run_, daily |-> day, monthly |-> month]

MCInitialRows == [p \in Policies |-> IF p = 1 THEN Limit("enforce", NoLimit, 3, 4)
                                              ELSE Limit("enforce", 2, NoLimit, 3)]
MCMonthlyRows == [p \in Policies |-> Limit("enforce", NoLimit, NoLimit, 3)]
MCEditedRows == {Limit("enforce", NoLimit, 1, NoLimit), Limit("warn", NoLimit, NoLimit, NoLimit)}
=============================================================================
