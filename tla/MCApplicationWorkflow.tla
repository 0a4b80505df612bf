------------------------ MODULE MCApplicationWorkflow ------------------------
(* Small instances of ApplicationWorkflow for TLC.                         *)
EXTENDS ApplicationWorkflow, TLC

CONSTANTS a, b, c, r1, r2, r3, r4

(* a and b are the same position found under two URLs; c is another one at *)
(* the same company.                                                       *)
MCCompany == [j \in Jobs |-> 1]
MCUrl == [j \in Jobs |-> j]
MCAtsId == [j \in Jobs |-> NoKey]
MCRequisition == [j \in Jobs |-> IF j = c THEN NoKey ELSE "R-1"]
MCRole == [j \in Jobs |-> NoKey]

(* Four requests one at a time, among everything else; or three that race. *)
MCEvents == [n \in Workers |-> IF n = 1 THEN {"override", "assisted", "representation"}
                               ELSE {"override"}]
MCOverrides == [n \in Workers |-> {"override"}]
MCMaxServed == [n \in Workers |-> IF n = 1 THEN 4 ELSE 3]

Symmetry == Permutations(Requests) \union Permutations(Jobs \ {c})
=============================================================================
